---- MODULE Spec2Model ----
(***************************************************************************)
(* Model of the z33 assembler front end: the memory layout engine          *)
(* (emulator/src/compiler/layout.rs), the constant-expression parser and   *)
(* evaluator (emulator/src/parser/expression.rs), the line parser          *)
(* (emulator/src/parser/line.rs), the preprocessor's parser                *)
(* (emulator/src/parser/preprocessor.rs), the derive macro of the          *)
(* instructions (instruction-derive/src/lib.rs) and the web front end      *)
(* (web/src/lib.rs).                                                       *)
(*                                                                         *)
(* Spec: layout_memory walks the program line by line.  The model takes    *)
(* one step per line: the program is the sequence of lines consumed so     *)
(* far, each step draws the next line from ProgramLines and runs the whole *)
(* loop body on it (labels first, then the content), and LayoutReturn is   *)
(* the `Ok(layout)` after the last line.                                   *)
(*                                                                         *)
(* SpecFunctions: the functions that are called on their own               *)
(* (Node::evaluate, parse_expression, parse_program, memory_report, the    *)
(* preprocessor's parse and parse_condition, the resolve_label that the    *)
(* derive macro of instruction-derive/src/lib.rs generates, and the        *)
(* computer_steps and dump of web/src/lib.rs).  A behaviour draws one call *)
(* with its argument and applies the function.  The second pass of the     *)
(* preprocessor is not among the sources and is modelled from the          *)
(* specification.                                                          *)
(*                                                                         *)
(* Integers: Value is i128 and Address is u32 in the program.  TLC's       *)
(* integers are 32-bit signed, so every value of the model lies in         *)
(* -2^31 .. 2^31-1; the inputs are chosen so that no intermediate result   *)
(* leaves that range.  Out of reach of the model for that reason: a        *)
(* Downcast of a value above the target type's maximum, and the unchecked  *)
(* `position += 1` on the last address 2^32-1.                             *)
(***************************************************************************)
EXTENDS Integers, Sequences, FiniteSets, TLC

VARIABLES
    program,    \* the lines consumed so far (the prefix of the input slice)
    layout,     \* the local `layout`: [labels, memory]
    position,   \* the local `position` (the cursor)
    returned,   \* what layout_memory has returned, Running while in the loop
    history,    \* per consumed line: what the loop body did (ghost)
    overflow_checks, \* the build: TRUE when integer overflow checks are on
    call_input,  \* the argument of the function call under check
    call_output  \* what that call returned, NoOutput before the call

vars == <<program, layout, position, returned, history,
          overflow_checks, call_input, call_output>>

(***************************************************************************)
(* Bounds and program constants                                            *)
(***************************************************************************)
MaxLines == 3

\* The budgets handed to computer_steps, and the number of iterations of a
\* computer that are scripted one by one.
MaxSteps == 3
ScriptLen == 2

\* The number of fields of an instruction variant.
MaxArgs == 3
\* The number of lines of a source handed to the preprocessor's parser.
MaxSourceLines == 4
\* The number of lines of a file of an inclusion graph, and the number of
\* `#elif` branches of a conditional that is evaluated.
MaxFileLines == 2
MaxElifs == 2

\* constants::PROGRAM_START, the initial cursor (constants.rs is not among the
\* sources read here; layout_memory only uses it at layout.rs:110).
PROGRAM_START == 1000

\* The range of i32, the type of `size` in the `.space` arm.
I32_MAX == 2147483647
I32_MIN == (-2147483647) - 1

(***************************************************************************)
(* Expression AST (expression.rs, enum Node)                               *)
(***************************************************************************)
BinaryOr(l, r)    == [op |-> "BinaryOr", left |-> l, right |-> r]
BinaryAnd(l, r)   == [op |-> "BinaryAnd", left |-> l, right |-> r]
LeftShift(l, r)   == [op |-> "LeftShift", left |-> l, right |-> r]
RightShift(l, r)  == [op |-> "RightShift", left |-> l, right |-> r]
Literal(v)        == [op |-> "Literal", value |-> v]
Variable(n)       == [op |-> "Variable", name |-> n]
Sum(l, r)         == [op |-> "Sum", left |-> l, right |-> r]
Substract(l, r)   == [op |-> "Substract", left |-> l, right |-> r]
Multiply(l, r)    == [op |-> "Multiply", left |-> l, right |-> r]
Divide(l, r)      == [op |-> "Divide", left |-> l, right |-> r]
Invert(a)         == [op |-> "Invert", operand |-> a]
BinaryNot(a)      == [op |-> "BinaryNot", operand |-> a]

BinaryOps ==
    {"BinaryOr", "BinaryAnd", "LeftShift", "RightShift",
     "Sum", "Substract", "Multiply", "Divide"}

(***************************************************************************)
(* Evaluation results: Ok(value), Err(EvaluationError), or a panic         *)
(***************************************************************************)
EvalOk(v)   == [kind |-> "Ok", value |-> v]
EvalErr(e)  == [kind |-> "Err", error |-> e]
EvalPanic   == [kind |-> "Panic"]

UndefinedVariable(n) == [type |-> "UndefinedVariable", variable |-> n]
Downcast             == [type |-> "Downcast"]

\* Option<Value>
None    == [some |-> FALSE]
Some(v) == [some |-> TRUE, value |-> v]

\* Rust's `/` on integers truncates toward zero.
Abs(a) == IF a < 0 THEN -a ELSE a

TruncDiv(a, b) ==
    LET q == Abs(a) \div Abs(b)
    IN  IF (a < 0) # (b < 0) THEN -q ELSE q

\* The two contexts of the program: EmptyContext, and the label table.
EmptyContext == [kind |-> "EmptyContext"]

LabelsContext(labels) == [kind |-> "Labels", labels |-> labels]

resolve_variable(context, variable) ==
    IF context.kind = "EmptyContext"
    THEN None
    ELSE IF variable \in DOMAIN context.labels
         THEN Some(context.labels[variable])
         ELSE None

\* `left | right` and `left & right` on two's complement integers.
RECURSIVE BitOr(_, _)
BitOr(a, b) ==
    IF a = 0 THEN b
    ELSE IF b = 0 THEN a
    ELSE IF a = -1 \/ b = -1 THEN -1
    ELSE (IF a % 2 = 1 \/ b % 2 = 1 THEN 1 ELSE 0)
             + 2 * BitOr(a \div 2, b \div 2)

RECURSIVE BitAnd(_, _)
BitAnd(a, b) ==
    IF a = 0 \/ b = 0 THEN 0
    ELSE IF a = -1 THEN b
    ELSE IF b = -1 THEN a
    ELSE (IF a % 2 = 1 /\ b % 2 = 1 THEN 1 ELSE 0)
             + 2 * BitAnd(a \div 2, b \div 2)

RECURSIVE Pow2(_)
Pow2(n) == IF n = 0 THEN 1 ELSE 2 * Pow2(n - 1)

\* The shift amount of `left << right` and `left >> right` on i128.  An
\* amount outside 0..127 overflows: the operation aborts when the build has
\* overflow checks, and otherwise uses the amount modulo 128.
VALUE_BITS == 128

shift_amount(right) ==
    IF 0 <= right /\ right < VALUE_BITS THEN Some(right)
    ELSE IF overflow_checks THEN None
    ELSE Some(right % VALUE_BITS)

\* `left << amount`: the bits shifted out are dropped.  The inputs keep a
\* nonzero `left` shifted by less than 31 bits.
shl(left, amount) == IF left = 0 THEN 0 ELSE left * Pow2(amount)

\* `left >> amount`, an arithmetic shift: the floor of left / 2^amount.
shr(left, amount) ==
    IF amount >= 31 THEN (IF left < 0 THEN -1 ELSE 0)
    ELSE left \div Pow2(amount)

\* The operators on two Values; `/` by zero aborts.
binary_op(op, left, right) ==
    CASE op = "BinaryOr"   -> EvalOk(BitOr(left, right))
      [] op = "BinaryAnd"  -> EvalOk(BitAnd(left, right))
      [] op = "LeftShift"  ->
            IF shift_amount(right).some
            THEN EvalOk(shl(left, shift_amount(right).value))
            ELSE EvalPanic
      [] op = "RightShift" ->
            IF shift_amount(right).some
            THEN EvalOk(shr(left, shift_amount(right).value))
            ELSE EvalPanic
      [] op = "Sum"       -> EvalOk(left + right)
      [] op = "Substract" -> EvalOk(left - right)
      [] op = "Multiply"  -> EvalOk(left * right)
      [] op = "Divide"    -> IF right = 0 THEN EvalPanic
                             ELSE EvalOk(TruncDiv(left, right))

\* The `match self` of Node::evaluate, computing in Value (i128).  Each
\* operand is evaluated in turn and `?` returns the first error; the todo!()
\* of BinaryNot aborts once its operand is evaluated.
RECURSIVE evaluate_value(_, _)
evaluate_value(node, context) ==
    CASE node.op = "Literal" -> EvalOk(node.value)
      [] node.op = "Variable" ->
            LET r == resolve_variable(context, node.name)
            IN  IF r.some THEN EvalOk(r.value)
                ELSE EvalErr(UndefinedVariable(node.name))
      [] node.op \in BinaryOps ->
            LET l == evaluate_value(node.left, context)
            IN  IF l.kind # "Ok" THEN l
                ELSE LET r == evaluate_value(node.right, context)
                     IN  IF r.kind # "Ok" THEN r
                         ELSE binary_op(node.op, l.value, r.value)
      [] node.op = "Invert" ->
            LET a == evaluate_value(node.operand, context)
            IN  IF a.kind # "Ok" THEN a ELSE EvalOk(-a.value)
      [] node.op = "BinaryNot" ->
            LET a == evaluate_value(node.operand, context)
            IN  IF a.kind # "Ok" THEN a ELSE EvalPanic

\* V::try_from(value) for the two target types layout_memory asks for:
\* i32 (the type inferred for `size` from `0..size`) and Address (u32),
\* and for Value itself (what the tests of expression.rs ask for).
\* A value above 2^32-1 is outside the integers of the model.
try_from(V, value) ==
    CASE V = "Value" -> EvalOk(value)
      [] V = "i32" ->
            IF value < I32_MIN \/ value > I32_MAX THEN EvalErr(Downcast)
            ELSE EvalOk(value)
      [] V = "Address" ->
            IF value < 0 THEN EvalErr(Downcast) ELSE EvalOk(value)

\* Mutant: every sub-expression is narrowed to the target type as well.
RECURSIVE evaluate_narrow_all(_, _, _)
evaluate_narrow_all(node, context, V) ==
    LET r == CASE node.op \in {"Literal", "Variable"} ->
                     evaluate_value(node, context)
               [] node.op \in BinaryOps ->
                     LET l == evaluate_narrow_all(node.left, context, V)
                     IN  IF l.kind # "Ok" THEN l
                         ELSE LET rr == evaluate_narrow_all(node.right,
                                                            context, V)
                              IN  IF rr.kind # "Ok" THEN rr
                                  ELSE binary_op(node.op, l.value, rr.value)
               [] node.op = "Invert" ->
                     LET a == evaluate_narrow_all(node.operand, context, V)
                     IN  IF a.kind # "Ok" THEN a ELSE EvalOk(-a.value)
               [] node.op = "BinaryNot" ->
                     LET a == evaluate_narrow_all(node.operand, context, V)
                     IN  IF a.kind # "Ok" THEN a ELSE EvalPanic
    IN  IF r.kind # "Ok" THEN r ELSE try_from(V, r.value)

evaluate(node, context, V) ==
    LET r == evaluate_value(node, context)
    IN  IF r.kind # "Ok" THEN r ELSE try_from(V, r.value)

(***************************************************************************)
(* Strings: a Rust String is UTF-8 bytes; chars() decodes the scalars      *)
(***************************************************************************)
\* The width of a character from its lead byte: 0x00..0x7F (one byte),
\* 0xC2..0xDF (two), 0xE0..0xEF (three) and 0xF0..0xF4 (four); any other
\* byte has width 0 and starts no character.
utf8_char_width(lead) ==
    CASE lead < 128                 -> 1
      [] lead >= 194 /\ lead <= 223 -> 2
      [] lead >= 224 /\ lead <= 239 -> 3
      [] lead >= 240 /\ lead <= 244 -> 4
      [] OTHER                      -> 0

Utf8Scalar(bytes, i) ==
    LET w == utf8_char_width(bytes[i])
    IN  CASE w = 1 -> bytes[i]
          [] w = 2 -> (bytes[i] % 32) * 64 + (bytes[i + 1] % 64)
          [] w = 3 -> (bytes[i] % 16) * 4096 + (bytes[i + 1] % 64) * 64
                      + (bytes[i + 2] % 64)
          [] w = 4 -> (bytes[i] % 8) * 262144 + (bytes[i + 1] % 64) * 4096
                      + (bytes[i + 2] % 64) * 64 + (bytes[i + 3] % 64)

RECURSIVE chars_from(_, _)
chars_from(bytes, i) ==
    IF i > Len(bytes) THEN <<>>
    ELSE <<Utf8Scalar(bytes, i)>> \o chars_from(bytes, i + utf8_char_width(bytes[i]))

\* Mutant: one cell per byte (`string.bytes()`).
chars_bytes(string) == string

chars(string) == chars_from(string, 1)

(***************************************************************************)
(* Lines (line.rs) and directive arguments                                 *)
(***************************************************************************)
Expression(node)     == [type |-> "Expression", node |-> node]
StringLiteral(bytes) == [type |-> "StringLiteral", string |-> bytes]

Instruction(kind)         == [type |-> "Instruction", kind |-> kind,
                              arguments |-> <<>>]
Directive(kind, argument) == [type |-> "Directive", kind |-> kind,
                              argument |-> argument]
NoContent                 == [type |-> "None"]

Line(symbols, content) == [symbols |-> symbols, content |-> content]

(***************************************************************************)
(* Placements and errors (layout.rs)                                       *)
(***************************************************************************)
Reserved          == [type |-> "Reserved"]
Char(c)           == [type |-> "Char", char |-> c]
PlacementLine(c)  == [type |-> "Line", content |-> c]

DuplicateLabel(label)          == [type |-> "DuplicateLabel", label |-> label]
InvalidDirectiveArgument(kind) == [type |-> "InvalidDirectiveArgument",
                                   kind |-> kind]
DirectiveArgumentEvaluation(kind, inner) ==
    [type |-> "DirectiveArgumentEvaluation", kind |-> kind, inner |-> inner]
MemoryOverlap(address)         == [type |-> "MemoryOverlap", address |-> address]

Running  == [kind |-> "Running"]
Ok(l)    == [kind |-> "Ok", layout |-> l]
Err(e)   == [kind |-> "Err", error |-> e]
Panic    == [kind |-> "Panic"]

EmptyLayout == [labels |-> <<>>, memory |-> <<>>]

(***************************************************************************)
(* Layout::insert_placement and Layout::insert_label                       *)
(***************************************************************************)
\* Mutants: the overlap test dropped (HashMap::insert overwrites), and the
\* overlap test made on the wrong key.
insert_placement_overwrite(l, address, placement) ==
    [ok |-> TRUE,
     layout |-> [l EXCEPT !.memory = (address :> placement) @@ @]]

insert_placement_wrong_key(l, address, placement) ==
    IF address + 1 \in DOMAIN l.memory
    THEN [ok |-> FALSE, error |-> MemoryOverlap(address), layout |-> l]
    ELSE [ok |-> TRUE,
          layout |-> [l EXCEPT !.memory = (address :> placement) @@ @]]

insert_placement(l, address, placement) ==
    IF address \in DOMAIN l.memory
    THEN [ok |-> FALSE, error |-> MemoryOverlap(address), layout |-> l]
    ELSE [ok |-> TRUE,
          layout |-> [l EXCEPT !.memory = (address :> placement) @@ @]]

\* Mutant: the duplicate test dropped (HashMap::insert rebinds the label).
insert_label_overwrite(l, label, address) ==
    [ok |-> TRUE,
     layout |-> [l EXCEPT !.labels = (label :> address) @@ @]]

insert_label(l, label, address) ==
    IF label \in DOMAIN l.labels
    THEN [ok |-> FALSE, error |-> DuplicateLabel(label), layout |-> l]
    ELSE [ok |-> TRUE,
          layout |-> [l EXCEPT !.labels = (label :> address) @@ @]]

\* Mutant: the address moves on by one cell after each label of the line.
RECURSIVE insert_labels_spread(_, _, _)
insert_labels_spread(l, symbols, address) ==
    IF symbols = <<>> THEN [ok |-> TRUE, layout |-> l]
    ELSE LET r == insert_label(l, Head(symbols), address)
         IN  IF ~r.ok THEN r
             ELSE insert_labels_spread(r.layout, Tail(symbols), address + 1)

\* `for key in line.symbols { layout.insert_label(key, position)?; }`
RECURSIVE insert_labels(_, _, _)
insert_labels(l, symbols, address) ==
    IF symbols = <<>> THEN [ok |-> TRUE, layout |-> l]
    ELSE LET r == insert_label(l, Head(symbols), address)
         IN  IF ~r.ok THEN r
             ELSE insert_labels(r.layout, Tail(symbols), address)

\* Mutant: the cursor moves by two cells after each write.
RECURSIVE place_cells_stride(_, _, _, _, _)
place_cells_stride(l, pos, cells, called, written) ==
    IF cells = <<>>
    THEN [ok |-> TRUE, layout |-> l, position |-> pos,
          called |-> called, written |-> written]
    ELSE LET r == insert_placement(l, pos, Head(cells))
         IN  IF ~r.ok
             THEN [ok |-> FALSE, error |-> r.error, layout |-> l,
                   position |-> pos, called |-> Append(called, pos),
                   written |-> written]
             ELSE place_cells_stride(r.layout, pos + 2, Tail(cells),
                                     Append(called, pos), Append(written, pos))

\* The loops `for .. { layout.insert_placement(position, p)?; position += 1 }`
\* over the placements of one line.  `called` lists the addresses
\* insert_placement was called with, `written` those it filled.
RECURSIVE place_cells(_, _, _, _, _)
place_cells(l, pos, cells, called, written) ==
    IF cells = <<>>
    THEN [ok |-> TRUE, layout |-> l, position |-> pos,
          called |-> called, written |-> written]
    ELSE LET r == insert_placement(l, pos, Head(cells))
         IN  IF ~r.ok
             THEN [ok |-> FALSE, error |-> r.error, layout |-> l,
                   position |-> pos, called |-> Append(called, pos),
                   written |-> written]
             ELSE place_cells(r.layout, pos + 1, Tail(cells),
                              Append(called, pos), Append(written, pos))

(***************************************************************************)
(* The arms of the `match &content.inner` of layout_memory.  Each returns  *)
(* how the loop body ends on that line: Running (go on with the next       *)
(* line), Err(e) (`?` or `return Err`), or Panic.                          *)
(***************************************************************************)
BodyResult(ret, l, pos, called, written) ==
    [returned |-> ret, layout |-> l, position |-> pos,
     called |-> called, written |-> written]

FromCells(r) ==
    BodyResult(IF r.ok THEN Running ELSE Err(r.error),
               r.layout, r.position, r.called, r.written)

\* Mutant: the cell is written but `position += 1` is missing.
arm_line_no_advance(l, pos, content) ==
    LET r == place_cells(l, pos, <<PlacementLine(content)>>, <<>>, <<>>)
    IN  BodyResult(IF r.ok THEN Running ELSE Err(r.error),
                   r.layout, pos, r.called, r.written)

\* Directive Word (whatever its argument) | Instruction: one cell.
arm_line(l, pos, content) ==
    FromCells(place_cells(l, pos, <<PlacementLine(content)>>, <<>>, <<>>))

\* Mutant: an inclusive range, `0..=size`.
reserved_cells_inclusive(size) == [i \in 1..(size + 1) |-> Reserved]

\* `for _ in 0..size`: an empty range when size <= 0.
reserved_cells(size) == [i \in 1..size |-> Reserved]

\* Directive Space with an expression.
arm_space(l, pos, e) ==
    LET size == evaluate(e, EmptyContext, "i32")
    IN  CASE size.kind = "Panic" -> BodyResult(Panic, l, pos, <<>>, <<>>)
          [] size.kind = "Err" ->
                BodyResult(Err(DirectiveArgumentEvaluation("Space", size.error)),
                           l, pos, <<>>, <<>>)
          [] size.kind = "Ok" ->
                FromCells(place_cells(l, pos, reserved_cells(size.value),
                                      <<>>, <<>>))

\* Mutant: the address taken as an offset (`position += addr`).
arm_addr_relative(l, pos, e) ==
    LET addr == evaluate(e, EmptyContext, "Address")
    IN  CASE addr.kind = "Panic" -> BodyResult(Panic, l, pos, <<>>, <<>>)
          [] addr.kind = "Err" ->
                BodyResult(Err(DirectiveArgumentEvaluation("Addr", addr.error)),
                           l, pos, <<>>, <<>>)
          [] addr.kind = "Ok" ->
                BodyResult(Running, l, pos + addr.value, <<>>, <<>>)

\* Directive Addr with an expression.
arm_addr(l, pos, e) ==
    LET addr == evaluate(e, EmptyContext, "Address")
    IN  CASE addr.kind = "Panic" -> BodyResult(Panic, l, pos, <<>>, <<>>)
          [] addr.kind = "Err" ->
                BodyResult(Err(DirectiveArgumentEvaluation("Addr", addr.error)),
                           l, pos, <<>>, <<>>)
          [] addr.kind = "Ok" ->
                BodyResult(Running, l, addr.value, <<>>, <<>>)

\* Directive String with a string literal: one Char cell for each of
\* `string.chars()`.
arm_string(l, pos, string) ==
    FromCells(place_cells(l, pos,
                          [i \in 1..Len(chars(string)) |->
                              Char(chars(string)[i])],
                          <<>>, <<>>))

\* Mutant: a directive no arm takes is skipped.
arm_invalid_skip(l, pos, kind) ==
    BodyResult(Running, l, pos, <<>>, <<>>)

\* Any other directive.
arm_invalid(l, pos, kind) ==
    BodyResult(Err(InvalidDirectiveArgument(kind)), l, pos, <<>>, <<>>)

\* Which arm a content takes: the patterns of the match, in order.
match_arm(content) ==
    CASE content.type = "None" -> "None"
      [] content.type = "Instruction" -> "Line"
      [] content.type = "Directive" /\ content.kind = "Word" -> "Line"
      [] content.type = "Directive" /\ content.kind = "Space"
           /\ content.argument.type = "Expression" -> "Space"
      [] content.type = "Directive" /\ content.kind = "Addr"
           /\ content.argument.type = "Expression" -> "Addr"
      [] content.type = "Directive" /\ content.kind = "String"
           /\ content.argument.type = "StringLiteral" -> "String"
      [] OTHER -> "Invalid"

layout_content(l, pos, content) ==
    LET arm == match_arm(content)
    IN  CASE arm = "None"    -> BodyResult(Running, l, pos, <<>>, <<>>)
          [] arm = "Line"    -> arm_line(l, pos, content)
          [] arm = "Space"   -> arm_space(l, pos, content.argument.node)
          [] arm = "Addr"    -> arm_addr(l, pos, content.argument.node)
          [] arm = "String"  -> arm_string(l, pos, content.argument.string)
          [] arm = "Invalid" -> arm_invalid(l, pos, content.kind)

\* Mutant: the labels of a line are bound only when the line has a content.
layout_line_skip_labels(l, pos, line) ==
    IF line.content.type = "None"
    THEN BodyResult(Running, l, pos, <<>>, <<>>)
    ELSE LET labelled == insert_labels(l, line.symbols, pos)
         IN  IF ~labelled.ok
             THEN BodyResult(Err(labelled.error), labelled.layout, pos,
                             <<>>, <<>>)
             ELSE layout_content(labelled.layout, pos, line.content)

\* Mutant: the content of the line is laid out before its labels are bound.
layout_line_content_first(l, pos, line) ==
    LET body == layout_content(l, pos, line.content)
    IN  IF body.returned # Running THEN body
        ELSE LET labelled == insert_labels(body.layout, line.symbols, pos)
             IN  BodyResult(IF labelled.ok THEN Running
                            ELSE Err(labelled.error),
                            labelled.layout, body.position,
                            body.called, body.written)

\* The body of `for line in program`: the labels, then the content.
layout_line(l, pos, line) ==
    LET labelled == insert_labels(l, line.symbols, pos)
    IN  IF ~labelled.ok
        THEN BodyResult(Err(labelled.error), labelled.layout, pos, <<>>, <<>>)
        ELSE layout_content(labelled.layout, pos, line.content)

(***************************************************************************)
(* The expression parser (expression.rs, parse_expression and below).      *)
(* A text is the sequence of its characters; a parser takes the remaining  *)
(* input and returns either an error or the rest of the input with the     *)
(* parsed node.                                                            *)
(***************************************************************************)
ParseOk(rest, node) == [ok |-> TRUE, rest |-> rest, node |-> node]
ParseError          == [ok |-> FALSE]

\* nom's space0: spaces and tabs.
RECURSIVE space0(_)
space0(input) ==
    IF input # <<>> /\ Head(input) \in {" ", "\t"}
    THEN space0(Tail(input))
    ELSE input

\* nom's char(c) and tag(t).
char(c, input) ==
    IF input # <<>> /\ Head(input) = c THEN ParseOk(Tail(input), c)
    ELSE ParseError

tag(t, input) ==
    IF Len(input) >= Len(t) /\ SubSeq(input, 1, Len(t)) = t
    THEN ParseOk(SubSeq(input, Len(t) + 1, Len(input)), t)
    ELSE ParseError

RECURSIVE take_while(_, _)
take_while(input, set) ==
    IF input # <<>> /\ Head(input) \in set
    THEN <<Head(input)>> \o take_while(Tail(input), set)
    ELSE <<>>

Digits == {"0", "1", "2", "3", "4", "5", "6", "7", "8", "9"}

DigitValue(c) ==
    CASE c = "0" -> 0 [] c = "1" -> 1 [] c = "2" -> 2 [] c = "3" -> 3
      [] c = "4" -> 4 [] c = "5" -> 5 [] c = "6" -> 6 [] c = "7" -> 7
      [] c = "8" -> 8 [] c = "9" -> 9
      [] c \in {"a", "A"} -> 10 [] c \in {"b", "B"} -> 11
      [] c \in {"c", "C"} -> 12 [] c \in {"d", "D"} -> 13
      [] c \in {"e", "E"} -> 14 [] c \in {"f", "F"} -> 15

RECURSIVE digits_value(_, _, _)
digits_value(digits, radix, acc) ==
    IF digits = <<>> THEN acc
    ELSE digits_value(Tail(digits), radix,
                      radix * acc + DigitValue(Head(digits)))

\* literal::parse_number_literal: a decimal literal, or `0x`, `0o` or `0b`
\* and the digits of that radix, the hexadecimal ones in either case.
literal_radix(input) ==
    CASE tag(<<"0", "x">>, input).ok -> 16
      [] tag(<<"0", "o">>, input).ok -> 8
      [] tag(<<"0", "b">>, input).ok -> 2
      [] OTHER                       -> 10

\* The literal made of the digits `run`.  A prefix that no digit follows
\* is read as the decimal literal 0, and the letter after it stays.
number_run(input, radix, run) ==
    IF run # <<>>
    THEN ParseOk(SubSeq(input, Len(run) + (IF radix = 10 THEN 1 ELSE 3),
                        Len(input)),
                 digits_value(run, radix, 0))
    ELSE IF radix = 10 THEN ParseError
    ELSE ParseOk(Tail(input), 0)

parse_number_literal(input) ==
    number_run(input, literal_radix(input),
               take_while(IF literal_radix(input) = 10 THEN input
                          ELSE Tail(Tail(input)),
                          { d \in Digits \cup {"a", "b", "c", "d", "e", "f",
                                               "A", "B", "C", "D", "E", "F"} :
                                DigitValue(d) < literal_radix(input) }))

\* parser::parse_identifier: a letter or `_`, then letters, digits and `_`.
\* The name is kept as its characters.
IdentifierStart ==
    { "a", "b", "c", "d", "e", "f", "g", "h", "i", "j", "k", "l", "m",
      "n", "o", "p", "q", "r", "s", "t", "u", "v", "w", "x", "y", "z",
      "A", "B", "C", "D", "E", "F", "G", "H", "I", "J", "K", "L", "M",
      "N", "O", "P", "Q", "R", "S", "T", "U", "V", "W", "X", "Y", "Z", "_" }

parse_identifier(input) ==
    IF input = <<>> \/ Head(input) \notin IdentifierStart THEN ParseError
    ELSE LET run == take_while(input, IdentifierStart \cup Digits)
         IN  ParseOk(SubSeq(input, Len(run) + 1, Len(input)), run)

\* nom's `alt` takes the first parser that succeeds, and `value` replaces
\* the node of a success.  The result of a parser that calls back into the
\* grammar is handed to the operator that continues with it, so that each
\* parser calls each of its sub-parsers at one place, as in the source.
Alt(first, second) == IF first.ok THEN first ELSE second

Value(v, r) == IF r.ok THEN ParseOk(r.rest, v) ELSE r

\* nom's `map` with the constructor of a node: `Node::Literal`,
\* `Node::Variable`, or the two shapes of a directive argument.
map_node(constructor, r) ==
    IF ~r.ok THEN ParseError
    ELSE ParseOk(r.rest,
                 CASE constructor = "Literal"       -> Literal(r.node)
                   [] constructor = "Variable"      -> Variable(r.node)
                   [] constructor = "StringLiteral" -> StringLiteral(r.node)
                   [] constructor = "Expression"    -> Expression(r.node))

\* nom's line_ending: "\n" or "\r\n".
line_ending(input) ==
    Alt(tag(<<"\n">>, input), tag(<<"\r", "\n">>, input))

\* nom's take_till for a set of stop characters.
RECURSIVE take_till(_, _)
take_till(input, stops) ==
    IF input # <<>> /\ Head(input) \notin stops
    THEN <<Head(input)>> \o take_till(Tail(input), stops)
    ELSE <<>>

\* nom's not_line_ending: the text up to the line ending; a carriage
\* return that does not start "\r\n" is an error.
not_line_ending(input) ==
    LET content == take_till(input, {"\r", "\n"})
        rest    == SubSeq(input, Len(content) + 1, Len(input))
    IN  IF rest # <<>> /\ Head(rest) = "\r" /\ ~tag(<<"\r", "\n">>, rest).ok
        THEN ParseError
        ELSE ParseOk(rest, content)

\* The pair (op, argument) that the `*_rec` parsers of Shift, Sum and Mul
\* return.
WithOp(op, arg) ==
    IF arg.ok THEN ParseOk(arg.rest, [op |-> op, arg |-> arg.node])
    ELSE ParseError

RECURSIVE parse_or(_), parse_or_rec(_), fold_or(_), fold_or_step(_, _)
RECURSIVE parse_and(_), parse_and_rec(_), fold_and(_), fold_and_step(_, _)
RECURSIVE parse_shift(_), parse_shift_rec(_)
RECURSIVE parse_sum(_), parse_sum_rec(_), fold_sum(_), fold_sum_step(_, _)
RECURSIVE parse_mul(_), parse_mul_rec(_), fold_mul(_), fold_mul_step(_, _)
RECURSIVE parse_unary(_), parse_atom(_), parse_parenthesis(_)

parse_or_rec(input) ==
    LET bar == char("|", space0(input))
    IN  IF bar.ok THEN parse_and(space0(bar.rest)) ELSE ParseError

\* fold_many0(parse_or_rec, value, BinaryOr): `acc` is the value so far and
\* the input left after it; the fold stops, keeping both, at the first
\* failure of parse_or_rec.
fold_or_step(acc, arg) ==
    IF arg.ok THEN fold_or(ParseOk(arg.rest, BinaryOr(acc.node, arg.node)))
    ELSE acc

fold_or(acc) ==
    IF acc.ok THEN fold_or_step(acc, parse_or_rec(acc.rest)) ELSE ParseError

parse_or(input) == fold_or(parse_and(input))

parse_and_rec(input) ==
    LET amp == char("&", space0(input))
    IN  IF amp.ok THEN parse_shift(space0(amp.rest)) ELSE ParseError

fold_and_step(acc, arg) ==
    IF arg.ok THEN fold_and(ParseOk(arg.rest, BinaryAnd(acc.node, arg.node)))
    ELSE acc

fold_and(acc) ==
    IF acc.ok THEN fold_and_step(acc, parse_and_rec(acc.rest)) ELSE ParseError

parse_and(input) == fold_and(parse_shift(input))

parse_shift_rec(input) ==
    LET op == Alt(Value("Right", tag(<<">", ">">>, space0(input))),
                  Value("Left", tag(<<"<", "<">>, space0(input))))
    IN  IF op.ok THEN WithOp(op.node, parse_sum(space0(op.rest)))
        ELSE ParseError

\* `opt(parse_shift_rec)` after the first Sum: at most one shift.
shift_opt(value, shift) ==
    IF ~shift.ok THEN value
    ELSE ParseOk(shift.rest,
                 IF shift.node.op = "Right"
                 THEN RightShift(value.node, shift.node.arg)
                 ELSE LeftShift(value.node, shift.node.arg))

parse_shift_value(value) ==
    IF value.ok THEN shift_opt(value, parse_shift_rec(value.rest))
    ELSE ParseError

parse_shift(input) == parse_shift_value(parse_sum(input))

parse_sum_rec(input) ==
    LET op == Alt(Value("Sum", char("+", space0(input))),
                  Value("Sub", char("-", space0(input))))
    IN  IF op.ok THEN WithOp(op.node, parse_mul(space0(op.rest)))
        ELSE ParseError

fold_sum_step(acc, term) ==
    IF term.ok
    THEN fold_sum(ParseOk(term.rest,
                          IF term.node.op = "Sum"
                          THEN Sum(acc.node, term.node.arg)
                          ELSE Substract(acc.node, term.node.arg)))
    ELSE acc

fold_sum(acc) ==
    IF acc.ok THEN fold_sum_step(acc, parse_sum_rec(acc.rest)) ELSE ParseError

parse_sum(input) == fold_sum(parse_mul(input))

\* Mutant: the right operand of `*` and `/` is a whole Sum, so that a
\* product no longer binds tighter than the sum that follows it.
parse_mul_rec_loose(input) ==
    LET op == Alt(Value("Mul", char("*", space0(input))),
                  Value("Div", char("/", space0(input))))
    IN  IF op.ok THEN WithOp(op.node, parse_sum(space0(op.rest)))
        ELSE ParseError

parse_mul_rec(input) ==
    LET op == Alt(Value("Mul", char("*", space0(input))),
                  Value("Div", char("/", space0(input))))
    IN  IF op.ok THEN WithOp(op.node, parse_unary(space0(op.rest)))
        ELSE ParseError

fold_mul_step(acc, factor) ==
    IF factor.ok
    THEN fold_mul(ParseOk(factor.rest,
                          IF factor.node.op = "Mul"
                          THEN Multiply(acc.node, factor.node.arg)
                          ELSE Divide(acc.node, factor.node.arg)))
    ELSE acc

fold_mul(acc) ==
    IF acc.ok THEN fold_mul_step(acc, parse_mul_rec(acc.rest)) ELSE ParseError

parse_mul(input) == fold_mul(parse_unary(input))

\* map(preceded(char('-'), parse_atom), Node::Invert) and its `~` twin.
map_unary(sign, atom) ==
    IF ~atom.ok THEN ParseError
    ELSE ParseOk(atom.rest, IF sign = "-" THEN Invert(atom.node)
                            ELSE BinaryNot(atom.node))

\* alt((`-` atom, `~` atom, atom)) after space0.
parse_unary(input) ==
    LET minus == char("-", space0(input))
        tilde == char("~", space0(input))
    IN  Alt(IF minus.ok THEN map_unary("-", parse_atom(minus.rest))
            ELSE ParseError,
            Alt(IF tilde.ok THEN map_unary("~", parse_atom(tilde.rest))
                ELSE ParseError,
                parse_atom(space0(input))))

\* alt((number literal, identifier, parenthesis)) after space0.
parse_atom(input) ==
    Alt(map_node("Literal", parse_number_literal(space0(input))),
        Alt(map_node("Variable", parse_identifier(space0(input))),
            parse_parenthesis(space0(input))))

\* The `)` after the expression of a parenthesis.
close_parenthesis(value) ==
    IF value.ok THEN Value(value.node, char(")", space0(value.rest)))
    ELSE ParseError

parse_parenthesis(input) ==
    LET open == char("(", input)
    IN  IF open.ok THEN close_parenthesis(parse_or(space0(open.rest)))
        ELSE ParseError

parse_expression(input) == parse_or(input)

(***************************************************************************)
(* The line parser (line.rs).  The parsers of value.rs and literal.rs it   *)
(* calls are modelled on the few forms the lines below use.                *)
(***************************************************************************)
\* value::parse_directive_kind: the name of one of the four directives.
DirectiveNames ==
    { [name |-> <<"w", "o", "r", "d">>, kind |-> "Word"],
      [name |-> <<"s", "p", "a", "c", "e">>, kind |-> "Space"],
      [name |-> <<"a", "d", "d", "r">>, kind |-> "Addr"],
      [name |-> <<"s", "t", "r", "i", "n", "g">>, kind |-> "String"] }

parse_directive_kind(input) ==
    LET found == { d \in DirectiveNames : tag(d.name, input).ok }
    IN  IF found = {} THEN ParseError
        ELSE Value((CHOOSE d \in found : TRUE).kind,
                   tag((CHOOSE d \in found : TRUE).name, input))

\* literal::parse_string_literal, for ASCII text: the characters between
\* two quotes, where a backslash writes one of the escapes `\\`, `\n`,
\* `\r`, `\t`, `\"` or, before a line feed, continues the string on the
\* next line.  The node is the UTF-8 bytes of the string.
\* The characters of bytes 32 to 126, the grave accent (96) left out.
AsciiPrintable ==
    <<" ", "!", "\"", "#", "$", "%", "&", "'", "(", ")", "*", "+", ",", "-",
      ".", "/", "0", "1", "2", "3", "4", "5", "6", "7", "8", "9", ":", ";",
      "<", "=", ">", "?", "@", "A", "B", "C", "D", "E", "F", "G", "H", "I",
      "J", "K", "L", "M", "N", "O", "P", "Q", "R", "S", "T", "U", "V", "W",
      "X", "Y", "Z", "[", "\\", "]", "^", "_", "", "a", "b", "c", "d", "e",
      "f", "g", "h", "i", "j", "k", "l", "m", "n", "o", "p", "q", "r", "s",
      "t", "u", "v", "w", "x", "y", "z", "{", "|", "}", "~">>

char_byte(c) ==
    31 + CHOOSE i \in DOMAIN AsciiPrintable : AsciiPrintable[i] = c

\* The body of a literal after its opening quote, up to the closing one.
RECURSIVE string_body(_, _)
string_body(input, bytes) ==
    IF input = <<>> \/ Head(input) \in {"\r", "\n"} THEN ParseError
    ELSE IF Head(input) = "\"" THEN ParseOk(Tail(input), bytes)
    ELSE IF Head(input) # "\\"
    THEN string_body(Tail(input), Append(bytes, char_byte(Head(input))))
    ELSE IF Len(input) < 2
            \/ input[2] \notin {"\\", "n", "r", "t", "\"", "\n"}
    THEN ParseError
    ELSE string_body(Tail(Tail(input)),
                     bytes \o CASE input[2] = "\\" -> <<92>>
                                [] input[2] = "n"  -> <<10>>
                                [] input[2] = "r"  -> <<13>>
                                [] input[2] = "t"  -> <<9>>
                                [] input[2] = "\"" -> <<34>>
                                [] input[2] = "\n" -> <<>>)

parse_string_literal(input) ==
    IF char("\"", input).ok THEN string_body(Tail(input), <<>>)
    ELSE ParseError

\* value::parse_directive_argument: a string literal or an expression.
parse_directive_argument(input) ==
    Alt(map_node("StringLiteral", parse_string_literal(input)),
        map_node("Expression", parse_expression(input)))

\* nom's space1: at least one space or tab.
space1(input) ==
    IF space0(input) = input THEN ParseError ELSE ParseOk(space0(input), " ")

directive_with(kind, argument) ==
    IF argument.ok THEN ParseOk(argument.rest, Directive(kind, argument.node))
    ELSE ParseError

\* Mutant: the argument has to have the shape the kind asks for.
parse_directive_line_checked(input) ==
    LET dot   == char(".", input)
        kind  == IF dot.ok THEN parse_directive_kind(dot.rest)
                 ELSE ParseError
        space == IF kind.ok THEN space1(kind.rest) ELSE ParseError
    IN  IF ~space.ok THEN ParseError
        ELSE IF kind.node = "String"
        THEN directive_with(kind.node,
                            map_node("StringLiteral",
                                     parse_string_literal(space.rest)))
        ELSE directive_with(kind.node,
                            map_node("Expression",
                                     parse_expression(space.rest)))

parse_directive_line(input) ==
    LET dot   == char(".", input)
        kind  == IF dot.ok THEN parse_directive_kind(dot.rest)
                 ELSE ParseError
        space == IF kind.ok THEN space1(kind.rest) ELSE ParseError
    IN  IF ~space.ok THEN ParseError
        ELSE directive_with(kind.node, parse_directive_argument(space.rest))

\* value::parse_instruction_kind and parse_instruction_argument: the
\* opcodes `jmp` and `add`, and the registers `%a` and `%b`.
parse_instruction_kind(input) ==
    Alt(Value("jmp", tag(<<"j", "m", "p">>, input)),
        Value("add", tag(<<"a", "d", "d">>, input)))

parse_instruction_argument(input) ==
    Alt(Value("%a", tag(<<"%", "a">>, input)),
        Value("%b", tag(<<"%", "b">>, input)))

\* separated_list1(delimited(space0, char(','), space0), argument) after
\* its first argument: the node is the list of arguments.
RECURSIVE more_arguments(_, _)
more_arguments(input, list) ==
    LET comma == char(",", space0(input))
        arg   == IF comma.ok
                 THEN parse_instruction_argument(space0(comma.rest))
                 ELSE ParseError
    IN  IF arg.ok THEN more_arguments(arg.rest, Append(list, arg.node))
        ELSE ParseOk(input, list)

InstructionWith(kind, arguments) ==
    [type |-> "Instruction", kind |-> kind, arguments |-> arguments]

\* `opt(preceded(space1, separated_list1(..)))`, `unwrap_or_default`.
parse_instruction_line(input) ==
    LET kind  == parse_instruction_kind(input)
        space == IF kind.ok THEN space1(kind.rest) ELSE ParseError
        first == IF space.ok THEN parse_instruction_argument(space.rest)
                 ELSE ParseError
        list  == more_arguments(first.rest, <<first.node>>)
    IN  IF ~kind.ok THEN ParseError
        ELSE IF ~first.ok THEN ParseOk(kind.rest, InstructionWith(kind.node, <<>>))
        ELSE ParseOk(list.rest, InstructionWith(kind.node, list.node))

parse_line_content(input) ==
    Alt(parse_directive_line(input), parse_instruction_line(input))

\* `peek(tag("#"))` then `not_line_ending`: the comment runs to the line
\* ending, which stays in the rest.
parse_comment(input) ==
    IF tag(<<"#">>, input).ok THEN not_line_ending(input) ELSE ParseError

parse_symbol_definition(input) ==
    LET symbol == parse_identifier(input)
    IN  IF symbol.ok THEN Value(symbol.node, char(":", space0(symbol.rest)))
        ELSE ParseError

\* many0(terminated(parse_symbol_definition, space0))
RECURSIVE parse_symbols(_, _)
parse_symbols(input, symbols) ==
    LET symbol == parse_symbol_definition(input)
    IN  IF symbol.ok
        THEN parse_symbols(space0(symbol.rest), Append(symbols, symbol.node))
        ELSE ParseOk(input, symbols)

\* The Line of line.rs, with its comment.
ParsedLine(symbols, content, comment) ==
    [symbols |-> symbols, content |-> content, comment |-> comment]

\* The optional comment that ends a line.
line_comment(symbols, content) ==
    LET comment == parse_comment(space0(content.rest))
    IN  IF comment.ok
        THEN ParseOk(comment.rest,
                     ParsedLine(symbols, content.node, Some(comment.node)))
        ELSE ParseOk(space0(content.rest),
                     ParsedLine(symbols, content.node, None))

\* The optional content of a line, then its comment.
line_content(symbols) ==
    line_comment(symbols.node,
                 Alt(parse_line_content(space0(symbols.rest)),
                     ParseOk(space0(symbols.rest), NoContent)))

\* The symbols, then the optional content, then the optional comment.
parse_line(input) == line_content(parse_symbols(space0(input), <<>>))

all_consuming(r) == IF r.ok /\ r.rest = <<>> THEN r ELSE ParseError

\* nom's `escaped(none_of("\\\r\n"), '\\', one_of("\\\r\nrnt\""))` from the
\* position `i` of `input` on: a backslash takes the character after it
\* when that one can be escaped, and is an error otherwise or at the end
\* of the input; a carriage return or a line feed ends the run, which is
\* an error when the run is empty.
RECURSIVE escaped(_, _)
escaped(input, i) ==
    IF i > Len(input) THEN ParseOk(<<>>, input)
    ELSE IF input[i] \notin {"\\", "\r", "\n"} THEN escaped(input, i + 1)
    ELSE IF input[i] = "\\"
    THEN IF i < Len(input)
            /\ input[i + 1] \in {"\\", "\r", "\n", "r", "n", "t", "\""}
         THEN escaped(input, i + 2)
         ELSE ParseError
    ELSE IF i = 1 THEN ParseError
    ELSE ParseOk(SubSeq(input, i, Len(input)), SubSeq(input, 1, i - 1))

\* `alt((line_parser, eof, value("", peek(line_ending))))`
line_parser(input) ==
    Alt(escaped(input, 1),
        Alt(IF input = <<>> THEN ParseOk(<<>>, <<>>) ELSE ParseError,
            IF line_ending(input).ok THEN ParseOk(input, <<>>)
            ELSE ParseError))

\* `separated_list1(line_ending, line_parser)` after its first line: the
\* list ends before a separator that no line follows.
RECURSIVE more_lines(_, _)
next_line(input, lines, line) ==
    IF line.ok THEN more_lines(line.rest, Append(lines, line.node))
    ELSE ParseOk(input, lines)

more_lines(input, lines) ==
    next_line(input, lines,
              IF line_ending(input).ok
              THEN line_parser(line_ending(input).rest)
              ELSE ParseError)

split_lines(input) ==
    IF line_parser(input).ok
    THEN more_lines(line_parser(input).rest, <<line_parser(input).node>>)
    ELSE ParseError

\* `.collect()` into a Result: the lines, or the error of the first line
\* that failed.
collect(rest, lines) ==
    IF \E i \in DOMAIN lines : ~lines[i].ok THEN ParseError
    ELSE ParseOk(rest, [i \in DOMAIN lines |-> lines[i].node])

\* The text is cut into lines and every line is parsed whole, with
\* `all_consuming(parse_line)`.
parse_program(input) ==
    IF ~split_lines(input).ok THEN ParseError
    ELSE collect(split_lines(input).rest,
                 [i \in DOMAIN split_lines(input).node |->
                     all_consuming(parse_line(split_lines(input).node[i]))])

(***************************************************************************)
(* Layout::memory_report (layout.rs) and the Display of a Placement        *)
(***************************************************************************)
\* The loop over the arguments of an instruction: ` {}` for each of them,
\* with a comma before every argument but the first.
RECURSIVE display_arguments(_, _)
display_arguments(arguments, first) ==
    IF arguments = <<>> THEN <<>>
    ELSE (IF first THEN <<>> ELSE <<",">>)
         \o <<" ", Head(arguments)>>
         \o display_arguments(Tail(arguments), FALSE)

\* `{}` of a LineContent: the opcode padded to 4 columns and its
\* arguments, or `.kind: argument`.
display_content(content) ==
    IF content.type = "Instruction"
    THEN <<[text |-> content.kind, width |-> 4]>>
         \o display_arguments(content.arguments, TRUE)
    ELSE <<".", content.kind, ": ", content.argument>>

\* The hexadecimal digits of a scalar value, as scalar values.
RECURSIVE hex_digits(_)
hex_digits(n) ==
    LET digit == n % 16
        last  == <<IF digit < 10 THEN 48 + digit ELSE 87 + digit>>
    IN  IF n < 16 THEN last ELSE hex_digits(n \div 16) \o last

\* The tables of the standard library that `{:?}` of a char reads.  The
\* blocks below U+0400 have had no assignment and no change of property
\* since Unicode 7.0, and their ranges are written out in the two
\* operators below.  From U+0400 on the answer depends on the Unicode
\* version of the standard library the program is built with, which the
\* repository does not fix: `std` holds, of the scalars from U+0400 on that
\* a call can meet, those the tables of the build give the property
\* Grapheme_Extend and those they class as printable.
StdTables(scalars) ==
    [grapheme_extended : SUBSET { c \in scalars : c >= 1024 },
     printable         : SUBSET { c \in scalars : c >= 1024 }]

\* char::is_grapheme_extended: false below U+0300, the table from there
\* on; below U+0400 the table holds the combining diacritical marks
\* (U+0300..U+036F) and nothing else.
is_grapheme_extended(c, std) ==
    IF c < 768 THEN FALSE
    ELSE IF c < 1024 THEN c <= 879
    ELSE c \in std.grapheme_extended

\* core::unicode::printable::is_printable: false below U+0020, true up to
\* U+007E, the table from there on; below U+0400 the scalars that are not
\* printable are the controls U+007F..U+009F, the no-break space, the soft
\* hyphen and the unassigned scalars of the Greek block.
is_printable(c, std) ==
    IF c < 32 THEN FALSE
    ELSE IF c < 127 THEN TRUE
    ELSE IF c < 1024
    THEN c \notin (127..160) \cup {173} \cup (888..889) \cup (896..899)
                      \cup {907, 909, 930}
    ELSE c \in std.printable

\* `{:?}` of a char between its quotes, as scalar values: a backslash
\* escape for NUL, tab, carriage return, line feed, backslash and the
\* single quote, `\u{..}` for a scalar that extends a grapheme or is not
\* printable, the character itself otherwise.
escape_debug(c, std) ==
    CASE c = 0  -> <<92, 48>>
      [] c = 9  -> <<92, 116>>
      [] c = 13 -> <<92, 114>>
      [] c = 10 -> <<92, 110>>
      [] c = 92 -> <<92, 92>>
      [] c = 39 -> <<92, 39>>
      [] OTHER  -> IF is_grapheme_extended(c, std) \/ ~is_printable(c, std)
                   THEN <<92, 117, 123>> \o hex_digits(c) \o <<125>>
                   ELSE <<c>>

\* `format!("{}", placement)`
display_placement(placement, std) ==
    CASE placement.type = "Reserved" -> <<"SPACE">>
      [] placement.type = "Char"     ->
             <<"'">> \o escape_debug(placement.char, std) \o <<"'">>
      [] placement.type = "Line"     -> display_content(placement.content)

\* The orders in which `self.memory.iter()` can visit the keys of the map.
IterationOrders(map) ==
    { order \in [1..Cardinality(DOMAIN map) -> DOMAIN map] :
          \A i, j \in DOMAIN order : order[i] = order[j] => i = j }

\* `v.sort_by_key(|&(k, _)| k)`: a stable sort on the first component.
insert_by_key(sorted, pair) ==
    LET before == SelectSeq(sorted, LAMBDA p : p[1] <= pair[1])
        after  == SelectSeq(sorted, LAMBDA p : p[1] > pair[1])
    IN  before \o <<pair>> \o after

RECURSIVE sort_by_key(_)
sort_by_key(v) ==
    IF v = <<>> THEN <<>>
    ELSE insert_by_key(sort_by_key(SubSeq(v, 1, Len(v) - 1)), v[Len(v)])

\* Mutant: the collected pairs are returned in iteration order.
memory_report_unsorted(l, order, std) ==
    [i \in DOMAIN order |->
        <<order[i], display_placement(l.memory[order[i]], std)>>]

memory_report(l, order, std) ==
    sort_by_key([i \in DOMAIN order |->
        <<order[i], display_placement(l.memory[order[i]], std)>>])

(***************************************************************************)
(* computer_steps (web/src/lib.rs).  The Computer is outside the sources:  *)
(* it is modelled by what its two methods return at each iteration, the    *)
(* first iterations from `script` and every later one as `rest`.           *)
(***************************************************************************)
Reset             == [type |-> "Reset"]
Exception(e)      == [type |-> "Exception", exception |-> e]
HardwareInterrupt == "HardwareInterrupt"

\* Result<(), ProcessorError>
Done == [kind |-> "Ok"]

Computer(script, rest) == [script |-> script, rest |-> rest]

\* What next_instruction() and step() return in iteration i (from 1).
behaviour(computer, i) ==
    IF i <= Len(computer.script) THEN computer.script[i] ELSE computer.rest

StepsResult(instructions, status, calls) ==
    [instructions |-> instructions, status |-> status, calls |-> calls]

\* Mutant: the loop runs once more than the budget, `0..=steps`.
RECURSIVE steps_loop_inclusive(_, _, _, _, _)
steps_loop_inclusive(computer, steps, i, instructions, calls) ==
    IF i > steps
    THEN StepsResult(instructions, Err(Exception(HardwareInterrupt)), calls)
    ELSE LET b == behaviour(computer, i + 1)
         IN  IF b.next.kind = "Err"
             THEN StepsResult(Append(instructions, "Invalid instruction"),
                              Err(b.next.error),
                              Append(calls, "next_instruction"))
             ELSE IF b.step.kind = "Ok"
             THEN steps_loop_inclusive(computer, steps, i + 1,
                      Append(instructions, b.next.inst),
                      calls \o <<"next_instruction", "step">>)
             ELSE StepsResult(Append(instructions, b.next.inst),
                              IF b.step.error = Reset THEN Done ELSE b.step,
                              calls \o <<"next_instruction", "step">>)

\* Mutant: Reset is returned as the error it is.
RECURSIVE steps_loop_reset_fails(_, _, _, _, _)
steps_loop_reset_fails(computer, steps, i, instructions, calls) ==
    IF i >= steps
    THEN StepsResult(instructions, Err(Exception(HardwareInterrupt)), calls)
    ELSE LET b == behaviour(computer, i + 1)
         IN  IF b.next.kind = "Err"
             THEN StepsResult(Append(instructions, "Invalid instruction"),
                              Err(b.next.error),
                              Append(calls, "next_instruction"))
             ELSE IF b.step.kind = "Ok"
             THEN steps_loop_reset_fails(computer, steps, i + 1,
                      Append(instructions, b.next.inst),
                      calls \o <<"next_instruction", "step">>)
             ELSE StepsResult(Append(instructions, b.next.inst), b.step,
                              calls \o <<"next_instruction", "step">>)

\* `for _ in 0..steps { .. }` from iteration i on (i iterations are done),
\* then the return after the loop.  `calls` lists the calls made on the
\* computer, in order.
RECURSIVE steps_loop(_, _, _, _, _)
steps_loop(computer, steps, i, instructions, calls) ==
    IF i >= steps
    THEN StepsResult(instructions, Err(Exception(HardwareInterrupt)), calls)
    ELSE LET b == behaviour(computer, i + 1)
         IN  IF b.next.kind = "Err"
             THEN StepsResult(Append(instructions, "Invalid instruction"),
                              Err(b.next.error),
                              Append(calls, "next_instruction"))
             ELSE IF b.step.kind = "Ok"
             THEN steps_loop(computer, steps, i + 1,
                             Append(instructions, b.next.inst),
                             calls \o <<"next_instruction", "step">>)
             ELSE StepsResult(Append(instructions, b.next.inst),
                              IF b.step.error = Reset THEN Done ELSE b.step,
                              calls \o <<"next_instruction", "step">>)

computer_steps(computer, steps) == steps_loop(computer, steps, 0, <<>>, <<>>)

(***************************************************************************)
(* The derive macro of the instructions (instruction-derive/src/lib.rs):   *)
(* parse_instructions reads the variants of the enum, and                  *)
(* generate_label_resolver writes one arm of `resolve_label` per variant.  *)
(* A variant is its name and its fields, each field a type with or without *)
(* the `labelable` attribute; Unit variants have no fields.                *)
(***************************************************************************)
Field(ty, labelable) == [ty |-> ty, labelable |-> labelable]

Variant(ident, fields) == [ident |-> ident, fields |-> fields]

\* Mutant: the last field that carries the attribute is taken.
labelable_position_last(fields) ==
    IF \E i \in DOMAIN fields : fields[i].labelable
    THEN Some((CHOOSE i \in DOMAIN fields :
                  /\ fields[i].labelable
                  /\ \A j \in DOMAIN fields : fields[j].labelable => j <= i)
              - 1)
    ELSE None

\* `fields.unnamed.iter().position(..)`: the index, from 0, of the first
\* field that carries the attribute.
labelable_position(fields) ==
    IF \E i \in DOMAIN fields : fields[i].labelable
    THEN Some((CHOOSE i \in DOMAIN fields :
                  /\ fields[i].labelable
                  /\ \A j \in DOMAIN fields : fields[j].labelable => i <= j)
              - 1)
    ELSE None

\* The Instruction that parse_instructions makes of one variant.
parse_instructions(variant) ==
    [ident |-> variant.ident,
     args |-> [i \in DOMAIN variant.fields |-> variant.fields[i].ty],
     labelable |-> labelable_position(variant.fields)]

\* `arg.resolve_label(address)` of an argument, a method of the argument's
\* type: None for an argument that cannot hold a label, the argument with
\* the address in it otherwise.
arg_resolve_label(arg, address) ==
    IF arg.labels THEN Some([arg EXCEPT !.value = address]) ELSE None

\* The arm that generate_label_resolver writes for `instruction`, applied
\* to the value `self` of that variant.
resolve_label(instruction, self, address) ==
    IF instruction.args = <<>> THEN None
    ELSE IF instruction.labelable.some
    THEN LET k == instruction.labelable.value + 1
             resolved == arg_resolve_label(self.args[k], address)
         IN  IF resolved.some
             THEN Some([self EXCEPT !.args[k] = resolved.value])
             ELSE None
    ELSE None

(***************************************************************************)
(* The preprocessor's parser (emulator/src/parser/preprocessor.rs).        *)
(* The nodes are kept without their locations.  Every parser of the file   *)
(* that calls back into `parse` hands the result to the operator that      *)
(* continues with it.                                                      *)
(***************************************************************************)
Raw(content)             == [type |-> "Raw", content |-> content]
Error(message)           == [type |-> "Error", message |-> message]
Undefine(key)            == [type |-> "Undefine", key |-> key]
Definition(key, content) == [type |-> "Definition", key |-> key,
                             content |-> content]
Inclusion(path)          == [type |-> "Inclusion", path |-> path]
Condition(branches, fallback) == [type |-> "Condition",
                                  branches |-> branches,
                                  fallback |-> fallback]
ConditionBranch(condition, body) == [condition |-> condition, body |-> body]

\* The local enum BranchDirective of parse_condition.
Else            == [type |-> "Else"]
ElseIf(cond)    == [type |-> "ElseIf", condition |-> cond]
EndIf           == [type |-> "EndIf"]

\* opt(preceded(tag("//"), not_line_ending)) after space0: what is left of
\* the input.
eat_end_of_line(input) ==
    LET rest    == space0(input)
        slashes == tag(<<"/", "/">>, rest)
        comment == IF slashes.ok THEN not_line_ending(slashes.rest)
                   ELSE ParseError
    IN  IF comment.ok THEN comment.rest ELSE rest

\* The loop of parse_directive_argument: the cursor where it breaks.  (On
\* a `/` or a carriage return that stands alone the loop of the source
\* makes no progress; no text of the model holds one.)
RECURSIVE directive_argument_loop(_)
directive_argument_loop(cursor) ==
    LET rest == space0(cursor)
    IN  IF \/ tag(<<"/", "/">>, rest).ok
           \/ tag(<<"\r", "\n">>, rest).ok
           \/ tag(<<"\n">>, rest).ok
           \/ rest = <<>>
        THEN cursor
        ELSE directive_argument_loop(
                 SubSeq(rest,
                        Len(take_till(rest, {" ", "\t", "\r", "\n", "/"})) + 1,
                        Len(rest)))

\* preprocessor::parse_directive_argument (the line parser has a function
\* of the same name).
preprocessor_parse_directive_argument(input) ==
    LET cursor == directive_argument_loop(input)
        index  == Len(input) - Len(cursor)
    IN  IF index = 0 THEN ParseError
        ELSE ParseOk(cursor, SubSeq(input, 1, index))

\* The four lines every directive parser starts with: `#`, space0, the
\* keyword, space1.
directive_keyword(keyword, input) ==
    LET hash == char("#", input)
        word == IF hash.ok THEN tag(keyword, space0(hash.rest))
                ELSE ParseError
    IN  IF word.ok THEN space1(word.rest) ELSE ParseError

\* The optional content of a definition.
definition_content(input) ==
    LET space   == space1(input)
        content == IF space.ok
                   THEN preprocessor_parse_directive_argument(space.rest)
                   ELSE ParseError
    IN  IF content.ok THEN ParseOk(content.rest, Some(content.node))
        ELSE ParseOk(input, None)

parse_definition(input) ==
    LET head    == directive_keyword(<<"d", "e", "f", "i", "n", "e">>, input)
        key     == IF head.ok THEN parse_identifier(head.rest) ELSE ParseError
        content == IF key.ok THEN definition_content(key.rest) ELSE ParseError
    IN  IF content.ok
        THEN ParseOk(eat_end_of_line(content.rest),
                     Definition(key.node, content.node))
        ELSE ParseError

parse_undefine(input) ==
    LET head == directive_keyword(<<"u", "n", "d", "e", "f", "i", "n", "e">>,
                                  input)
        key  == IF head.ok THEN parse_identifier(head.rest) ELSE ParseError
    IN  IF key.ok THEN ParseOk(eat_end_of_line(key.rest), Undefine(key.node))
        ELSE ParseError

parse_inclusion(input) ==
    LET head == directive_keyword(<<"i", "n", "c", "l", "u", "d", "e">>,
                                  input)
        path == IF head.ok THEN parse_string_literal(head.rest)
                ELSE ParseError
    IN  IF path.ok THEN ParseOk(eat_end_of_line(path.rest),
                                Inclusion(path.node))
        ELSE ParseError

parse_error(input) ==
    LET head    == directive_keyword(<<"e", "r", "r", "o", "r">>, input)
        message == IF head.ok THEN parse_string_literal(head.rest)
                   ELSE ParseError
    IN  IF message.ok THEN ParseOk(eat_end_of_line(message.rest),
                                   Error(message.node))
        ELSE ParseError

parse_raw(input) ==
    IF char("#", input).ok THEN ParseError
    ELSE LET content == not_line_ending(input)
         IN  IF content.ok THEN ParseOk(content.rest, Raw(content.node))
             ELSE ParseError

\* The `elif` arm of the alt in the loop of parse_condition.
parse_elif(input) ==
    LET word == tag(<<"e", "l", "i", "f">>, input)
        space == IF word.ok THEN space1(word.rest) ELSE ParseError
        condition == IF space.ok
                     THEN preprocessor_parse_directive_argument(space.rest)
                     ELSE ParseError
    IN  IF condition.ok THEN ParseOk(condition.rest, ElseIf(condition.node))
        ELSE ParseError

\* `#`, space0 and the alt of endif, elif and else.
branch_directive(cursor) ==
    LET hash == char("#", cursor)
        rest == IF hash.ok THEN space0(hash.rest) ELSE <<>>
    IN  IF ~hash.ok THEN ParseError
        ELSE Alt(Value(EndIf, tag(<<"e", "n", "d", "i", "f">>, rest)),
                 Alt(parse_elif(rest),
                     Value(Else, tag(<<"e", "l", "s", "e">>, rest))))

\* Mutant: the closing `#endif` is not asked for.
condition_end_unclosed(branches, fallback, cursor) ==
    LET hash  == char("#", cursor)
        endif == IF hash.ok
                 THEN tag(<<"e", "n", "d", "i", "f">>, space0(hash.rest))
                 ELSE ParseError
    IN  IF endif.ok THEN ParseOk(eat_end_of_line(endif.rest),
                                 Condition(branches, fallback))
        ELSE ParseOk(cursor, Condition(branches, fallback))

\* After the loop: the `#endif` at the cursor.
condition_end(branches, fallback, cursor) ==
    LET hash  == char("#", cursor)
        endif == IF hash.ok
                 THEN tag(<<"e", "n", "d", "i", "f">>, space0(hash.rest))
                 ELSE ParseError
    IN  IF endif.ok THEN ParseOk(eat_end_of_line(endif.rest),
                                 Condition(branches, fallback))
        ELSE ParseError

RECURSIVE parse_from(_, _)
RECURSIVE parse_condition(_)
RECURSIVE condition_loop(_, _)

\* preprocessor::parse
parse(input) == parse_from(input, <<>>)

\* Mutant: a branch is put in front of the ones before it.
condition_branch_front(branches, directive, body) ==
    IF directive.type = "ElseIf"
    THEN condition_loop(<<ConditionBranch(directive.condition, body.node)>>
                            \o branches, body.rest)
    ELSE condition_end(branches, Some(body.node), body.rest)

\* The end of an iteration of the loop, with the body that was parsed.
condition_branch(branches, directive, body) ==
    IF directive.type = "ElseIf"
    THEN condition_loop(Append(branches,
                               ConditionBranch(directive.condition,
                                               body.node)),
                        body.rest)
    ELSE condition_end(branches, Some(body.node), body.rest)

\* An iteration of the loop of parse_condition with the directive it read.
condition_directive(branches, cursor, directive) ==
    IF ~directive.ok THEN ParseError
    ELSE IF directive.node.type = "EndIf"
    THEN condition_end(branches, None, cursor)
    ELSE IF ~line_ending(eat_end_of_line(directive.rest)).ok THEN ParseError
    ELSE condition_branch(branches, directive.node,
             parse(line_ending(eat_end_of_line(directive.rest)).rest))

condition_loop(branches, cursor) ==
    condition_directive(branches, cursor, branch_directive(cursor))

\* The first branch, with its body.
condition_first(condition, body) ==
    condition_loop(<<ConditionBranch(condition, body.node)>>, body.rest)

parse_condition(input) ==
    LET head      == directive_keyword(<<"i", "f">>, input)
        condition == IF head.ok
                     THEN preprocessor_parse_directive_argument(head.rest)
                     ELSE ParseError
        start     == IF condition.ok
                     THEN line_ending(eat_end_of_line(condition.rest))
                     ELSE ParseError
    IN  IF ~start.ok THEN ParseError
        ELSE condition_first(condition.node, parse(start.rest))

parse_chunk(input) ==
    Alt(parse_definition(input),
        Alt(parse_undefine(input),
            Alt(parse_inclusion(input),
                Alt(parse_condition(input),
                    Alt(parse_error(input), parse_raw(input))))))

\* An iteration of the loop of `parse` with what parse_chunk returned.
parse_next(cursor, chunks, chunk) ==
    IF ~chunk.ok THEN ParseOk(cursor, chunks)
    ELSE IF line_ending(chunk.rest).ok
    THEN parse_from(line_ending(chunk.rest).rest, Append(chunks, chunk.node))
    ELSE ParseOk(chunk.rest, Append(chunks, chunk.node))

parse_from(cursor, chunks) == parse_next(cursor, chunks, parse_chunk(cursor))

(***************************************************************************)
(* The preprocessor's second pass (section 4.1 of the specification; the   *)
(* sources hold its parser only).  A file system maps a path to the text   *)
(* of a file.  The pass walks the nodes of a file in order and threads     *)
(* what it has done so far: the lines emitted, the conditions evaluated    *)
(* and the paths entered, or the error that ended it.  Conditions are      *)
(* integer expressions; the substitution of definitions in raw lines is    *)
(* not modelled.                                                           *)
(***************************************************************************)
IncludeCycle(path)  == [type |-> "IncludeCycle", path |-> path]
FileNotFound(path)  == [type |-> "FileNotFound", path |-> path]
UserError(msg)      == [type |-> "UserError", msg |-> msg]
MalformedDirective  == [type |-> "MalformedDirective"]

Preprocessing == [kind |-> "Ok", text |-> <<>>, evaluated |-> <<>>,
                  entered |-> <<>>]

Fail(acc, e) == [kind |-> "Err", error |-> e, text |-> acc.text,
                 evaluated |-> acc.evaluated, entered |-> acc.entered]

OnStack(stack, path) == \E i \in DOMAIN stack : stack[i] = path

\* The value of a condition: the text parsed as an expression and
\* evaluated.
condition_value(text) ==
    LET res == parse_expression(text)
    IN  IF res.ok /\ res.rest = <<>>
        THEN evaluate_value(res.node, EmptyContext)
        ELSE EvalErr(MalformedDirective)

RECURSIVE preprocess_nodes(_, _, _, _)
RECURSIVE preprocess_file(_, _, _, _)
RECURSIVE preprocess_branches(_, _, _, _, _)

\* The branch whose condition has the value `value`: its body when the
\* value is not zero, the branches after it otherwise.
preprocess_branch(fs, stack, branches, fallback, acc, value) ==
    IF value.kind # "Ok" THEN Fail(acc, MalformedDirective)
    ELSE IF value.value # 0
    THEN preprocess_nodes(fs, stack, Head(branches).body, acc)
    ELSE preprocess_branches(fs, stack, Tail(branches), fallback, acc)

preprocess_branches(fs, stack, branches, fallback, acc) ==
    IF branches = <<>>
    THEN IF fallback.some
         THEN preprocess_nodes(fs, stack, fallback.value, acc)
         ELSE acc
    ELSE preprocess_branch(fs, stack, branches, fallback,
             [acc EXCEPT !.evaluated = Append(@, Head(branches).condition)],
             condition_value(Head(branches).condition))

preprocess_node(fs, stack, node, acc) ==
    IF node.type = "Raw"
    THEN [acc EXCEPT !.text = Append(@, node.content)]
    ELSE IF node.type = "Error" THEN Fail(acc, UserError(node.message))
    ELSE IF node.type = "Inclusion"
    THEN preprocess_file(fs, stack, node.path, acc)
    ELSE IF node.type = "Condition"
    THEN preprocess_branches(fs, stack, node.branches, node.fallback, acc)
    ELSE acc

preprocess_nodes(fs, stack, nodes, acc) ==
    IF acc.kind = "Err" \/ nodes = <<>> THEN acc
    ELSE preprocess_nodes(fs, stack, Tail(nodes),
                          preprocess_node(fs, stack, Head(nodes), acc))

\* The nodes of a file that has been parsed; a text the parser does not
\* consume to its end is a malformed directive.
preprocess_parsed(fs, stack, parsed, acc) ==
    IF parsed.rest # <<>> THEN Fail(acc, MalformedDirective)
    ELSE preprocess_nodes(fs, stack, parsed.node, acc)

\* Mutant: a path is refused when it has been entered before, on the stack
\* or not.
preprocess_file_once(fs, stack, path, acc) ==
    IF OnStack(acc.entered, path) THEN Fail(acc, IncludeCycle(path))
    ELSE IF path \notin DOMAIN fs THEN Fail(acc, FileNotFound(path))
    ELSE preprocess_parsed(fs, Append(stack, path), parse(fs[path]),
                           [acc EXCEPT !.entered = Append(@, path)])

\* Entering a file: the include stack grows by the path for the time its
\* nodes are walked.
preprocess_file(fs, stack, path, acc) ==
    IF OnStack(stack, path) THEN Fail(acc, IncludeCycle(path))
    ELSE IF path \notin DOMAIN fs THEN Fail(acc, FileNotFound(path))
    ELSE preprocess_parsed(fs, Append(stack, path), parse(fs[path]),
                           [acc EXCEPT !.entered = Append(@, path)])

preprocess(fs, path) == preprocess_file(fs, <<>>, path, Preprocessing)

(***************************************************************************)
(* dump (web/src/lib.rs).  The preprocessor, the parser of the program,    *)
(* the compiler and the rendering of a diagnostic are outside the sources: *)
(* a call of dump comes with what each of them returns.  The layout is the *)
(* layout_memory of the model and the execution its computer_steps.  The   *)
(* result is the Output that is returned, or a panic, with the stages that *)
(* were run.                                                               *)
(***************************************************************************)
DIAGNOSTIC_BUFFER == 1024
DUMP_STEPS        == 1000
DUMP_MEMORY_FROM  == 9980
DUMP_MEMORY_TO    == 10000

Output == [preprocessed |-> <<>>, memory |-> None, error |-> None,
           registers |-> None, instructions |-> None]

DumpReturned(output, stages) ==
    [kind |-> "Returned", output |-> output, stages |-> stages]

DumpPanic(stages) == [kind |-> "Panic", stages |-> stages]

\* layout_memory as the function dump calls: the loop over the lines.
RECURSIVE layout_lines(_, _, _)
layout_after(body, lines) ==
    IF body.returned # Running THEN body.returned
    ELSE layout_lines(body.layout, body.position, lines)

layout_lines(l, pos, lines) ==
    IF lines = <<>> THEN Ok(l)
    ELSE layout_after(layout_line(l, pos, Head(lines)), Tail(lines))

layout_memory(lines) == layout_lines(EmptyLayout, PROGRAM_START, lines)

\* `emit` into `[0u8; 1024]` through a writer on the slice: the bytes that
\* fit are written and the others are dropped.
write_buffer(rendered) ==
    [i \in 1..DIAGNOSTIC_BUFFER |->
         IF i <= Len(rendered) THEN rendered[i] ELSE 0]

\* std::str::from_utf8: TRUE when the bytes are well-formed, that is when
\* every byte either starts a character whose continuation bytes follow it
\* or is a continuation byte of a character that starts up to three bytes
\* before it.
\* The second byte of a character: narrowed after 0xE0 (no overlong
\* form), 0xED (no surrogate), 0xF0 (no overlong form) and 0xF4 (nothing
\* above U+10FFFF).
second_byte(lead, byte) ==
    CASE lead = 224 -> byte >= 160 /\ byte <= 191
      [] lead = 237 -> byte >= 128 /\ byte <= 159
      [] lead = 240 -> byte >= 144 /\ byte <= 191
      [] lead = 244 -> byte >= 128 /\ byte <= 143
      [] OTHER      -> byte >= 128 /\ byte <= 191

StartsCharacter(bytes, i) ==
    /\ utf8_char_width(bytes[i]) > 0
    /\ i + utf8_char_width(bytes[i]) - 1 <= Len(bytes)
    /\ utf8_char_width(bytes[i]) > 1 =>
           second_byte(bytes[i], bytes[i + 1])
    /\ \A k \in (i + 2)..(i + utf8_char_width(bytes[i]) - 1) :
           bytes[k] >= 128 /\ bytes[k] <= 191

from_utf8(bytes) ==
    \A i \in DOMAIN bytes :
        IF bytes[i] >= 128 /\ bytes[i] <= 191
        THEN \E j \in (i - 3)..(i - 1) :
                 /\ j >= 1
                 /\ StartsCharacter(bytes, j)
                 /\ j + utf8_char_width(bytes[j]) - 1 >= i
        ELSE StartsCharacter(bytes, i)

\* `output.error = Some(format!("{}", from_utf8(&buf).unwrap()))`
diagnostic_error(output, rendered, stages) ==
    IF from_utf8(write_buffer(rendered))
    THEN DumpReturned([output EXCEPT !.error = Some(write_buffer(rendered))],
                      stages)
    ELSE DumpPanic(stages)

\* The cells 9999 down to 9980 of the memory of the computer.
dump_memory(computer) ==
    [k \in 1..(DUMP_MEMORY_TO - DUMP_MEMORY_FROM) |->
         <<DUMP_MEMORY_TO - k, computer.memory>>]

dump_execute(input, output, stages, res) ==
    IF res.status.kind = "Err"
    THEN DumpReturned([output EXCEPT !.error = Some(res.status.error),
                                     !.instructions = Some(res.instructions)],
                      stages)
    ELSE DumpReturned([output EXCEPT !.instructions = Some(res.instructions),
                                     !.registers = Some("Execution: OK"),
                                     !.memory = Some(dump_memory(input.computer))],
                      stages)

dump_compile(input, output, stages) ==
    IF input.compiled.kind = "Ok"
    THEN dump_execute(input, output, Append(stages, "execute"),
                      computer_steps(input.computer, DUMP_STEPS))
    ELSE IF input.compiled.error.type = "UnknownEntrypoint"
    THEN DumpReturned([output EXCEPT !.error =
                           Some("Unable to find entrypoint 'main'")], stages)
    ELSE IF input.compiled.error.location
    THEN diagnostic_error(output, input.rendered, stages)
    ELSE DumpReturned([output EXCEPT !.error = Some(input.compiled.error)],
                      stages)

dump_layout(input, stages, l) ==
    IF l.kind = "Panic" THEN DumpPanic(stages)
    ELSE IF l.kind = "Err"
    THEN DumpReturned([Output EXCEPT !.error = Some(l.error)], stages)
    ELSE dump_compile(input,
             [Output EXCEPT !.preprocessed =
                  memory_report(l.layout,
                      CHOOSE order \in IterationOrders(l.layout.memory) :
                          TRUE,
                      input.std)],
             Append(stages, "compile"))

dump_parse(input, stages) ==
    IF input.parsed.kind = "Err"
    THEN diagnostic_error(Output, input.rendered, stages)
    ELSE dump_layout(input, Append(stages, "layout"),
                     layout_memory(input.parsed.program))

dump(input) ==
    IF input.preprocessed.kind = "Err"
    THEN DumpReturned([Output EXCEPT !.error = Some(input.preprocessed.error)],
                      <<"preprocess">>)
    ELSE dump_parse(input, <<"preprocess", "parse">>)

(***************************************************************************)
(* Inputs: the lines a program is made of                                  *)
(***************************************************************************)
\* "ab", the empty string, and "é🚙" (2 scalars, 6 bytes, 3 UTF-16 units)
StringAB    == <<97, 98>>
StringEmpty == <<>>
StringWide  == <<195, 169, 240, 159, 154, 153>>

Strings == {StringEmpty, StringAB, StringWide}

SpaceNodes ==
    { Literal(0), Literal(2), Invert(Literal(1)),
      Variable("a"), Sum(Literal(1), Variable("a")),
      Sum(Divide(Literal(1), Literal(0)), Variable("a")) }

AddrNodes ==
    { Literal(10), Literal(PROGRAM_START), Literal(PROGRAM_START + 1),
      Invert(Literal(1)), Variable("a"), Substract(Variable("b"), Variable("a")),
      Sum(BinaryNot(Literal(0)), Variable("b")) }

Contents ==
    { NoContent, Instruction("jmp"),
      Directive("Word", Expression(Variable("a"))),
      Directive("Word", StringLiteral(StringAB)),
      Directive("Space", StringLiteral(StringAB)),
      Directive("Addr", StringLiteral(StringAB)),
      Directive("String", Expression(Literal(3))) }
    \cup { Directive("Space", Expression(n)) : n \in SpaceNodes }
    \cup { Directive("Addr", Expression(n)) : n \in AddrNodes }
    \cup { Directive("String", StringLiteral(s)) : s \in Strings }

LabelledContents ==
    { NoContent, Instruction("jmp"),
      Directive("Word", Expression(Variable("a"))),
      Directive("Space", Expression(Literal(2))),
      Directive("Addr", Expression(Literal(10))),
      Directive("String", StringLiteral(StringAB)) }

SymbolLists == { <<"a">>, <<"b">>, <<"a", "b">>, <<"a", "a">> }

ProgramLines ==
    { Line(<<>>, c) : c \in Contents }
    \cup { Line(s, c) : s \in SymbolLists, c \in LabelledContents }

(***************************************************************************)
(* The state machine                                                       *)
(***************************************************************************)
NoInput  == [fn |-> "none"]
NoOutput == [kind |-> "NoOutput"]

Init ==
    /\ program = <<>>
    /\ layout = EmptyLayout
    /\ position = PROGRAM_START
    /\ returned = Running
    /\ history = <<>>
    \* No line of ProgramLines holds a shift, the one operation that the
    \* overflow checks of the build change: the layout is the same with
    \* and without them.
    /\ overflow_checks = TRUE
    /\ call_input = NoInput
    /\ call_output = NoOutput

\* One iteration of `for line in program` on the line `line`.
LayoutStep(line) ==
    /\ returned = Running
    /\ Len(program) < MaxLines
    /\ LET r == layout_line(layout, position, line)
       IN  /\ program' = Append(program, line)
           /\ layout' = r.layout
           /\ position' = r.position
           /\ returned' = r.returned
           /\ history' = Append(history,
                  [line |-> line, before |-> position, after |-> r.position,
                   called |-> r.called, written |-> r.written,
                   memory |-> layout.memory, labels |-> layout.labels,
                   memory_after |-> r.layout.memory,
                   labels_after |-> r.layout.labels,
                   returned |-> r.returned])
           /\ UNCHANGED <<overflow_checks, call_input, call_output>>

LayoutLabelsOnly ==
    \E line \in ProgramLines :
        match_arm(line.content) = "None" /\ LayoutStep(line)

LayoutInstructionOrWord ==
    \E line \in ProgramLines :
        match_arm(line.content) = "Line" /\ LayoutStep(line)

LayoutSpace ==
    \E line \in ProgramLines :
        match_arm(line.content) = "Space" /\ LayoutStep(line)

LayoutAddr ==
    \E line \in ProgramLines :
        match_arm(line.content) = "Addr" /\ LayoutStep(line)

LayoutString ==
    \E line \in ProgramLines :
        match_arm(line.content) = "String" /\ LayoutStep(line)

LayoutInvalidDirective ==
    \E line \in ProgramLines :
        match_arm(line.content) = "Invalid" /\ LayoutStep(line)

\* The end of the slice: `Ok(layout)`.
LayoutReturn ==
    /\ returned = Running
    /\ returned' = Ok(layout)
    /\ UNCHANGED <<program, layout, position, history,
                   overflow_checks, call_input, call_output>>

Next ==
    \/ LayoutLabelsOnly
    \/ LayoutInstructionOrWord
    \/ LayoutSpace
    \/ LayoutAddr
    \/ LayoutString
    \/ LayoutInvalidDirective
    \/ LayoutReturn

Spec == Init /\ [][Next]_vars

(***************************************************************************)
(* The functions checked on their own: each behaviour draws one call, its  *)
(* argument in call_input, and the action of the function applies it once. *)
(***************************************************************************)
\* Expressions handed to Node::evaluate.
EvalNodes ==
    { Divide(Literal(6), Literal(3)),
      Divide(Invert(Literal(7)), Literal(2)),
      Divide(Literal(1), Literal(0)),
      Divide(Literal(0), Literal(0)),
      Divide(Variable("a"), Substract(Variable("b"), Variable("b"))),
      LeftShift(Literal(1), Literal(4)),
      LeftShift(Literal(3), Literal(0)),
      LeftShift(Literal(0), Literal(64)),
      LeftShift(Literal(0), Literal(128)),
      LeftShift(Literal(0), Invert(Literal(1))),
      RightShift(Literal(240), Literal(4)),
      RightShift(Literal(5), Literal(63)),
      RightShift(Literal(5), Literal(64)),
      RightShift(Invert(Literal(1)), Literal(64)),
      RightShift(Literal(256), Literal(129)),
      RightShift(Literal(5), Invert(Literal(1))),
      RightShift(Variable("a"), Literal(1)),
      BinaryNot(Literal(0)),
      BinaryNot(Literal(5)),
      BinaryNot(Variable("a")),
      Sum(Invert(Literal(1)), Literal(PROGRAM_START + 1)),
      Substract(Literal(2), Literal(5)),
      Multiply(Invert(Literal(2)), Invert(Literal(3))),
      Sum(Variable("a"), Invert(Literal(2000))),
      BinaryAnd(Literal(175), Literal(240)),
      BinaryAnd(Invert(Literal(1)), Literal(255)),
      BinaryOr(Literal(15), Literal(240)),
      BinaryOr(Invert(Literal(8)), Literal(3)),
      Literal(I32_MAX),
      Invert(Literal(I32_MAX)) }

EvalContexts ==
    { EmptyContext, LabelsContext(("a" :> PROGRAM_START) @@ ("b" :> 10)) }

EvalTargets == {"i32", "Address", "Value"}

EvaluateInputs ==
    { [fn |-> "evaluate", node |-> n, context |-> c, V |-> t] :
          n \in EvalNodes, c \in EvalContexts, t \in EvalTargets }

\* Layouts handed to memory_report: up to four cells, below and at
\* PROGRAM_START, of every kind of placement; among the characters, a
\* line feed, a no-break space and U+0CF3, which Unicode 15.0 assigned.
\* A call comes with the tables of the build for the characters of its
\* layout.
ReportAddresses == {10, 11, PROGRAM_START, PROGRAM_START + 1}

ReportPlacements ==
    { Reserved, Char(97), Char(10), Char(160), Char(3315),
      PlacementLine(Instruction("jmp")),
      PlacementLine(InstructionWith("add", <<"%a", "%b">>)),
      PlacementLine(Directive("Word", Expression(Literal(3)))) }

ReportLayouts ==
    { [labels |-> <<>>, memory |-> m] :
          m \in UNION { [keys -> ReportPlacements] :
                            keys \in SUBSET ReportAddresses } }

MemoryReportInputs ==
    UNION { { [fn |-> "memory_report", self |-> l, std |-> s] :
                  s \in StdTables({ l.memory[a].char :
                                       a \in { k \in DOMAIN l.memory :
                                                  l.memory[k].type = "Char" } }) } :
            l \in ReportLayouts }

\* Texts handed to parse_expression: `a op1 b op2 c` over literals, bare or
\* with one pair of parentheses, with or without a unary minus on an
\* operand, written with or without spaces.
ExprOps ==
    { <<"|">>, <<"&">>, <<"<", "<">>, <<">", ">">>,
      <<"+">>, <<"-">>, <<"*">>, <<"/">> }

ShapeOf(a, op1, b, op2, c, paren, neg, spaced) ==
    [a |-> a, op1 |-> op1, b |-> b, op2 |-> op2, c |-> c,
     paren |-> paren, neg |-> neg, spaced |-> spaced]

\* A `<<` of a nonzero value is kept to the small operands 5, 2 and 3, so
\* that its result stays inside the integers of the model.
ExprShapes ==
    { ShapeOf(5, op1, b, op2, c, paren, neg, spaced) :
          op1 \in ExprOps \ {<<"<", "<">>}, op2 \in ExprOps \ {<<"<", "<">>},
          b \in {2, 0}, c \in {3, 200},
          paren \in {"none", "left", "right"},
          neg \in {"none", "a", "c"}, spaced \in BOOLEAN }
    \cup
    { s \in { ShapeOf(5, op1, 2, op2, 3, paren, "none", spaced) :
                  op1 \in ExprOps, op2 \in ExprOps,
                  paren \in {"none", "left", "right"}, spaced \in BOOLEAN } :
          /\ <<"<", "<">> \in {s.op1, s.op2}
          /\ ~(s.op1 = <<"<", "<">> /\ s.op2 = <<"-">> /\ s.paren # "left") }

DigitChar(d) ==
    CASE d = 0 -> "0" [] d = 1 -> "1" [] d = 2 -> "2" [] d = 3 -> "3"
      [] d = 4 -> "4" [] d = 5 -> "5" [] d = 6 -> "6" [] d = 7 -> "7"
      [] d = 8 -> "8" [] d = 9 -> "9"

RECURSIVE DecimalChars(_)
DecimalChars(n) ==
    IF n < 10 THEN <<DigitChar(n)>>
    ELSE DecimalChars(n \div 10) \o <<DigitChar(n % 10)>>

\* The text of a shape.
Render(s) ==
    LET gap   == IF s.spaced THEN <<" ">> ELSE <<>>
        A     == (IF s.neg = "a" THEN <<"-">> ELSE <<>>) \o DecimalChars(s.a)
        B     == DecimalChars(s.b)
        C     == (IF s.neg = "c" THEN <<"-">> ELSE <<>>) \o DecimalChars(s.c)
        open  == <<"(">> \o gap
        close == gap \o <<")">>
    IN  CASE s.paren = "none" ->
                 A \o gap \o s.op1 \o gap \o B \o gap \o s.op2 \o gap \o C
          [] s.paren = "left" ->
                 open \o A \o gap \o s.op1 \o gap \o B \o close
                      \o gap \o s.op2 \o gap \o C
          [] s.paren = "right" ->
                 A \o gap \o s.op1 \o gap
                   \o open \o B \o gap \o s.op2 \o gap \o C \o close

\* A chain of two shifts, a text with an identifier, one with a trailing
\* operator, and literals of the other radixes, those of calculation_test
\* among them.
OtherTexts ==
    { <<"1", "<", "<", "2", "<", "<", "3">>,
      <<"a", "+", "1">>,
      <<"1", " ", "+">>,
      <<"~", "5">>,
      <<"+", "1">>,
      <<"0", "x", "F", "F", " ", "*", " ", "2">>,
      <<"0", "x", "0", "F", " ", "<", "<", "4">>,
      <<"0", "x", "F", "0", ">", ">", " ", "4">>,
      <<"0", "x", "A", "F", " ", "&", " ", "0", "x", "F", "0">>,
      <<"0", "x", "0", "F", " ", "|", " ", "0", "x", "F", "0">>,
      <<"0", "x", "f", "f">>,
      <<"0", "o", "1", "7", " ", "+", " ", "0", "b", "1", "0", "1">>,
      <<"0", "b", "1", "2">>,
      <<"0", "x">>,
      <<"0", "9">>,
      <<"F", "F">> }

ParseExpressionInputs ==
    { [fn |-> "parse_expression", text |-> Render(s),
       shaped |-> TRUE, shape |-> s] : s \in ExprShapes }
    \cup { [fn |-> "parse_expression", text |-> t, shaped |-> FALSE] :
               t \in OtherTexts }

\* Texts handed to parse_program: the line `[labels] .kind argument
\* [# comment]` for every directive name and a few arguments of either
\* shape, some other lines, and texts of several lines.
ArgumentTexts ==
    { <<"3">>, <<"1", "+", "2">>, <<"a">>, <<"(", "3", ")">>,
      <<"\"", "a", "b", "\"">>, <<"\"", "\"">> }

LabelTexts == { <<>>, <<"a", ":", " ">>, <<"a", ":", "b", " ", ":", " ">> }

CommentTexts == { <<>>, <<" ", "#", " ", "x">> }

DirectiveLines ==
    { [fn |-> "parse_program", directive |-> TRUE,
       name |-> d.name, kind |-> d.kind, argument |-> t,
       text |-> l \o <<".">> \o d.name \o <<" ">> \o t \o c] :
          d \in DirectiveNames, t \in ArgumentTexts,
          l \in LabelTexts, c \in CommentTexts }

\* The input of parse_program_test.
ProgramTestText ==
    <<"\n", " ", " ", " ", " ", " ", " ", " ", " ", " ", " ", " ", " ", "s",
      "t", "r", ":", " ", ".", "s", "p", "a", "c", "e", " ", "\"", "s", "o",
      "m", "e", " ", "m", "u", "l", "t", "i", "l", "i", "n", "e", " ", "\\",
      "\n", "s", "t", "r", "i", "n", "g", "\"", "\n", " ", " ", " ", " ",
      " ", " ", " ", " ", " ", " ", " ", " ", "m", "a", "i", "n", ":", " ",
      "#", " ", "b", "e", "g", "i", "n", "n", "i", "n", "g", " ", "o", "f",
      " ", "p", "r", "o", "g", "r", "a", "m", "\n", " ", " ", " ", " ", " ",
      " ", " ", " ", " ", " ", " ", " ", " ", " ", " ", " ", "a", "d", "d",
      " ", "%", "a", ",", " ", "%", "b", "\n", " ", " ", " ", " ", " ", " ",
      " ", " ">>

SeveralLines ==
    { ProgramTestText,
      <<"a", ":", "\n", "j", "m", "p">>,
      <<"j", "m", "p", "\n", "a", "d", "d", " ", "%", "a", ",", " ", "%",
        "b">>,
      <<"\n">>,
      <<"#", " ", "c", "\\", "\n", "m", "o", "r", "e">>,
      <<"j", "m", "p", "\r", "\n", ".", "b", "s", "s", " ", "3", "\n">>,
      <<"j", "m", "p", "\\", "x">>,
      <<"j", "m", "p", "\n", "\\", "x">>,
      <<"j", "m", "p", "\r", "j", "m", "p">>,
      <<"j", "m", "p", "\\">>,
      <<".", "s", "t", "r", "i", "n", "g", " ", "\"", "a", "\\", "\n", "b",
        "\"", " ", "#", " ", "x", "\\", "\\">>,
      <<"h", "e", "l", "l", "o", " ", "\\", "\n", "w", "o", "r", "l", "d",
        "\n", "t", "h", "i", "s", " ", "i", "s", " ", "a", " ", "n", "e",
        "w", " ", "l", "i", "n", "e", "\n", "t", "h", "i", "s", " ", "h",
        "a", "s", " ", "e", "s", "c", "a", "p", "e", "d", " ", "c", "h",
        "a", "r", "s", ":", " ", "\\", "r", " ", "\\", "n", " ", "\\", "t",
        " ", "\\", "\"">> }

OtherLines ==
    { [fn |-> "parse_program", directive |-> FALSE, text |-> t] :
          t \in { <<>>,
                  <<"#", " ", "x">>,
                  <<"a", ":">>,
                  <<"j", "m", "p">>,
                  <<"a", "d", "d", " ", "%", "a", ",", " ", "%", "b">>,
                  <<".", "s", "p", "a", "c", "e">>,
                  <<".", "b", "s", "s", " ", "3">>,
                  <<".", "s", "p", "a", "c", "e", " ", "3", " ", "3">>,
                  <<".", "s", "t", "r", "i", "n", "g", " ", "\"", "a">> }
               \cup SeveralLines }

ParseProgramInputs == DirectiveLines \cup OtherLines

\* Calls of computer_steps: a computer whose first ScriptLen iterations
\* are scripted, and a budget of up to MaxSteps steps.
NextResults ==
    { [kind |-> "Ok", inst |-> "add %a, %b"],
      Err(Exception("InvalidInstruction")) }

StepResults == { Done, Err(Reset), Err(Exception("InvalidInstruction")) }

Behaviours == [next : NextResults, step : StepResults]

Computers ==
    { Computer(s, r) : s \in [1..ScriptLen -> Behaviours], r \in Behaviours }

ComputerStepsInputs ==
    { [fn |-> "computer_steps", computer |-> c, steps |-> n] :
          c \in Computers, n \in 0..MaxSteps }

\* Calls of resolve_label: variants of up to MaxArgs fields, every choice of
\* the fields that carry `labelable`, and arguments that can or cannot hold
\* a label.
ArgValues == { [value |-> v, labels |-> l] : v \in {0, 7}, l \in BOOLEAN }

ResolveLabelInputs ==
    UNION { { [fn |-> "resolve_label", variant |-> Variant("Jmp", f),
               self |-> [ident |-> "Jmp", args |-> a],
               address |-> PROGRAM_START] :
                  f \in [1..n -> { Field("Arg", l) : l \in BOOLEAN }],
                  a \in [1..n -> ArgValues] } : n \in 0..MaxArgs }

\* Texts of the preprocessor: the lines a source is made of and the line
\* ending that joins them.  A source that ends with an empty line is one
\* with a trailing line ending.
LineRaw     == <<"x">>
LineEmpty   == <<>>
LineIf      == <<"#", "i", "f", " ", "1">>
LineElif    == <<"#", "e", "l", "i", "f", " ", "0">>
LineElse    == <<"#", "e", "l", "s", "e">>
LineEndif   == <<"#", "e", "n", "d", "i", "f">>
LineComment == <<"#", " ", "x">>

SourceLines ==
    { LineRaw, LineEmpty, LineIf, LineElif, LineElse, LineEndif, LineComment }

LF   == <<"\n">>
CRLF == <<"\r", "\n">>

RECURSIVE Join(_, _)
Join(lines, eol) ==
    IF Len(lines) = 0 THEN <<>>
    ELSE IF Len(lines) = 1 THEN lines[1]
    ELSE lines[1] \o eol \o Join(Tail(lines), eol)

LineLists == UNION { [1..n -> SourceLines] : n \in 1..MaxSourceLines }

\* The directives with one argument, with and without the spaces and the
\* comment that parse_weird_test puts around them.
LineDefine     == <<"#", "d", "e", "f", "i", "n", "e", " ", "a", " ", "b">>
LineDefineBare == <<"#", "d", "e", "f", "i", "n", "e", " ", "a", " ">>
LineUndefine   == <<"#", " ", "u", "n", "d", "e", "f", "i", "n", "e", " ",
                    " ", "a", " ", "/", "/", "x">>
LineInclude    == <<"#", "i", "n", "c", "l", "u", "d", "e", " ", "\"", "a",
                    "\"">>
LineIncludeFar == <<"#", " ", " ", "i", "n", "c", "l", "u", "d", "e", " ",
                    " ", "\"", "b", "\"", "/", "/", "x">>
LineError      == <<"#", "e", "r", "r", "o", "r", " ", "\"", "a", "b", "\"">>
LineIfFar      == <<"#", " ", "i", "f", " ", " ", "1", " ", "/", "/", "x">>
LineEndifFar   == <<"#", " ", "e", "n", "d", "i", "f", " ", "/", "/", "x">>

DirectiveLists ==
    { <<LineRaw, l, LineRaw>> :
          l \in { LineDefine, LineDefineBare, LineUndefine, LineInclude,
                  LineIncludeFar, LineError } }
      \cup { <<LineIfFar, LineRaw, LineEndifFar, LineRaw>>,
             <<LineIf, LineRaw, LineIf, LineRaw, LineEndif, LineElif,
               LineRaw, LineElse, LineRaw, LineEndif>> }

PreprocessorParseInputs ==
    { [fn |-> "parse", lines |-> ls, eol |-> e, input |-> Join(ls, e)] :
          ls \in LineLists \cup DirectiveLists, e \in {LF, CRLF} }

ParseConditionInputs ==
    { [fn |-> "parse_condition", lines |-> ls, eol |-> e,
       input |-> Join(ls, e)] :
          ls \in { l \in LineLists : l[1] \in {LineIf, LineRaw} }
                   \cup DirectiveLists,
          e \in {LF, CRLF} }

\* The files of a preprocessor run: "a" is the root, and a file is made
\* of raw lines and inclusions of "a" and "b".
PathA == <<97>>
PathB == <<98>>
LineIncludeB == <<"#", "i", "n", "c", "l", "u", "d", "e", " ", "\"", "b",
                  "\"">>

FileLines == { LineRaw, LineInclude, LineIncludeB }

FileTexts ==
    UNION { [1..n -> FileLines] : n \in 0..MaxFileLines }

IncludeInputs ==
    { [fn |-> "preprocess", family |-> "include",
       lines |-> (PathA :> la @@ PathB :> lb),
       fs |-> (PathA :> Join(la, LF) @@ PathB :> Join(lb, LF)),
       path |-> PathA] : la \in FileTexts, lb \in FileTexts }
      \cup
    { [fn |-> "preprocess", family |-> "include",
       lines |-> (PathA :> la),
       fs |-> (PathA :> Join(la, LF)),
       path |-> PathA] : la \in FileTexts }

\* A file that holds one conditional: `#if`, up to MaxElifs `#elif`s and
\* an optional `#else`, each with a body of one line of its own.
ConditionTexts == { <<"0">>, <<"1">>, <<"1", "-", "1">> }

BodyOf(i) == <<<<"p">>, <<"q">>, <<"r">>, <<"s">>, <<"t">>>>[i]
ElseBody  == <<"z">>

BranchLines(conditions, i) ==
    << (IF i = 1 THEN <<"#", "i", "f", " ">>
        ELSE <<"#", "e", "l", "i", "f", " ">>) \o conditions[i],
       BodyOf(i) >>

RECURSIVE ConditionalLines(_, _)
ConditionalLines(conditions, i) ==
    IF i > Len(conditions) THEN <<>>
    ELSE BranchLines(conditions, i) \o ConditionalLines(conditions, i + 1)

ConditionalText(conditions, else) ==
    ConditionalLines(conditions, 1)
        \o (IF else THEN <<LineElse, ElseBody>> ELSE <<>>)
        \o <<LineEndif>>

ConditionInputs ==
    { [fn |-> "preprocess", family |-> "condition",
       conditions |-> c, else |-> e,
       fs |-> (PathA :> Join(ConditionalText(c, e), LF)),
       path |-> PathA] :
          c \in UNION { [1..n -> ConditionTexts] : n \in 1..(1 + MaxElifs) },
          e \in BOOLEAN }

\* Calls of dump.  The programs hold no character from U+0400 on, so the
\* tables of the build have nothing to say.  A rendered diagnostic is `padding` bytes of one-byte
\* characters followed by the three bytes of a box-drawing character and a
\* line feed.
Rendered(padding) == [i \in 1..padding |-> 32] \o <<226, 148, 130, 10>>

RenderedTexts ==
    { Rendered(n) : n \in { 8, DIAGNOSTIC_BUFFER - 3, DIAGNOSTIC_BUFFER - 2,
                            DIAGNOSTIC_BUFFER - 1 } }

DumpPrograms ==
    { <<>>,
      <<Line(<<"a">>, Directive("Word", Expression(Variable("a")))),
        Line(<<>>, Directive("String", StringLiteral(StringAB)))>>,
      <<Line(<<"a", "a">>, Instruction("jmp"))>>,
      <<Line(<<>>, Instruction("jmp")),
        Line(<<>>, Directive("Space",
             Expression(Sum(Divide(Literal(1), Literal(0)),
                            Variable("a")))))>> }

ParseOutcomes ==
    { Err("ParseError") } \cup { [kind |-> "Ok", program |-> p] :
                                     p \in DumpPrograms }

CompileOutcomes ==
    { Done,
      Err([type |-> "UnknownEntrypoint", location |-> FALSE]),
      Err([type |-> "MemoryLayout", location |-> FALSE]),
      Err([type |-> "MemoryLayout", location |-> TRUE]),
      Err([type |-> "MemoryFill", location |-> TRUE]) }

\* The computers of a call of dump stop after their script, on a reset or
\* on an error: a run that uses up the 1000 steps is not among them.
DumpComputers ==
    { [script |-> s, rest |-> r, memory |-> "Empty"] :
          s \in { <<>>, <<[next |-> [kind |-> "Ok", inst |-> "add %a, %b"],
                           step |-> Done]>> },
          r \in { b \in Behaviours :
                      b.next.kind = "Err" \/ b.step.kind = "Err" } }

DumpInputs ==
    { [fn |-> "dump",
       preprocessed |-> pre, parsed |-> par, rendered |-> r,
       compiled |-> com, computer |-> c, std |-> s] :
          pre \in { Done, Err(IncludeCycle(PathA)) },
          par \in ParseOutcomes, r \in RenderedTexts,
          com \in CompileOutcomes, c \in DumpComputers,
          s \in StdTables({}) }

FunctionInputs ==
    EvaluateInputs \cup MemoryReportInputs \cup ParseExpressionInputs
        \cup ParseProgramInputs \cup ComputerStepsInputs
        \cup ResolveLabelInputs \cup PreprocessorParseInputs
        \cup ParseConditionInputs \cup IncludeInputs \cup ConditionInputs
        \cup DumpInputs

\* A call of memory_report finds its layout in `layout`, as returned by
\* layout_memory.
InitFunctions ==
    /\ program = <<>>
    /\ position = PROGRAM_START
    /\ history = <<>>
    /\ overflow_checks \in BOOLEAN
    /\ call_input \in FunctionInputs
    /\ layout = IF call_input.fn = "memory_report" THEN call_input.self
                ELSE EmptyLayout
    /\ returned = IF call_input.fn = "memory_report" THEN Ok(layout)
                  ELSE Running
    /\ call_output = NoOutput

\* `node.evaluate::<_, V>(&context)`
Evaluate ==
    /\ call_input.fn = "evaluate"
    /\ call_output = NoOutput
    /\ call_output' =
           evaluate(call_input.node, call_input.context, call_input.V)
    /\ UNCHANGED <<program, layout, position, returned, history,
                   overflow_checks, call_input>>

\* `layout.memory_report()`, the map visited in any order.
MemoryReport ==
    /\ call_input.fn = "memory_report"
    /\ call_output = NoOutput
    /\ \E order \in IterationOrders(layout.memory) :
           call_output' = [kind |-> "Report", iterated |-> order,
                      pairs |-> memory_report(layout, order, call_input.std)]
    /\ UNCHANGED <<program, layout, position, returned, history,
                   overflow_checks, call_input>>

\* parse_expression, then evaluate on what it parsed, as the tests of
\* expression.rs do: the whole text has to be consumed, and the node is
\* evaluated as a Value with the empty context.
ParseAndEvaluate ==
    /\ call_input.fn = "parse_expression"
    /\ call_output = NoOutput
    /\ LET res == parse_expression(call_input.text)
       IN  call_output' =
               IF ~res.ok THEN [kind |-> "ParseError"]
               ELSE IF res.rest # <<>>
                    THEN [kind |-> "Unparsed", rest |-> res.rest]
                    ELSE evaluate(res.node, EmptyContext, "Value")
    /\ UNCHANGED <<program, layout, position, returned, history,
                   overflow_checks, call_input>>

\* `parse_program(input)`: the lines of the text and the rest of the input
\* that split_lines left.
ParseProgram ==
    /\ call_input.fn = "parse_program"
    /\ call_output = NoOutput
    /\ LET res == parse_program(call_input.text)
       IN  call_output' =
               IF ~res.ok THEN [kind |-> "ParseError"]
               ELSE [kind |-> "Program", lines |-> res.node,
                     rest |-> res.rest]
    /\ UNCHANGED <<program, layout, position, returned, history,
                   overflow_checks, call_input>>

\* `computer_steps(&mut computer, steps)`
ComputerSteps ==
    /\ call_input.fn = "computer_steps"
    /\ call_output = NoOutput
    /\ LET res == computer_steps(call_input.computer, call_input.steps)
       IN  call_output' = [kind |-> "Steps",
                           instructions |-> res.instructions,
                           status |-> res.status, calls |-> res.calls]
    /\ UNCHANGED <<program, layout, position, returned, history,
                   overflow_checks, call_input>>

\* `instruction.resolve_label(address)`, on the arm generated for the
\* variant of the instruction.
ResolveLabel ==
    /\ call_input.fn = "resolve_label"
    /\ call_output = NoOutput
    /\ call_output' =
           [kind |-> "Resolved",
            instruction |-> parse_instructions(call_input.variant),
            result |-> resolve_label(parse_instructions(call_input.variant),
                                     call_input.self, call_input.address)]
    /\ UNCHANGED <<program, layout, position, returned, history,
                   overflow_checks, call_input>>

\* preprocessor::parse on a source.
PreprocessorParse ==
    /\ call_input.fn = "parse"
    /\ call_output = NoOutput
    /\ LET res == parse(call_input.input)
       IN  call_output' = [kind |-> "Chunks", rest |-> res.rest,
                           chunks |-> res.node]
    /\ UNCHANGED <<program, layout, position, returned, history,
                   overflow_checks, call_input>>

\* preprocessor::parse_condition on a source, as parse_condition_test
\* calls it.
ParseCondition ==
    /\ call_input.fn = "parse_condition"
    /\ call_output = NoOutput
    /\ LET res == parse_condition(call_input.input)
       IN  call_output' =
               IF ~res.ok THEN [kind |-> "ParseError"]
               ELSE [kind |-> "Node", rest |-> res.rest, node |-> res.node]
    /\ UNCHANGED <<program, layout, position, returned, history,
                   overflow_checks, call_input>>

\* `preprocessor.preprocess(&path)` on a file system, with the nodes the
\* parser made of the root file.
Preprocess ==
    /\ call_input.fn = "preprocess"
    /\ call_output = NoOutput
    /\ call_output' =
           [kind |-> "Preprocessed",
            nodes |-> parse(call_input.fs[call_input.path]).node,
            result |-> preprocess(call_input.fs, call_input.path)]
    /\ UNCHANGED <<program, layout, position, returned, history,
                   overflow_checks, call_input>>

\* `dump(source)`
Dump ==
    /\ call_input.fn = "dump"
    /\ call_output = NoOutput
    /\ call_output' = dump(call_input)
    /\ UNCHANGED <<program, layout, position, returned, history,
                   overflow_checks, call_input>>

NextFunctions ==
    \/ Evaluate
    \/ MemoryReport
    \/ ParseAndEvaluate
    \/ ParseProgram
    \/ ComputerSteps
    \/ ResolveLabel
    \/ PreprocessorParse
    \/ ParseCondition
    \/ Preprocess
    \/ Dump

SpecFunctions == InitFunctions /\ [][NextFunctions]_vars

(***************************************************************************)
(* Helpers of the properties                                               *)
(***************************************************************************)
Range(seq) == { seq[i] : i \in DOMAIN seq }

RECURSIVE CellsWritten(_)
CellsWritten(h) ==
    IF h = <<>> THEN 0 ELSE Len(Head(h).written) + CellsWritten(Tail(h))

\* The line passed its labels: the content of the line was dispatched.
ContentReached(h) ==
    ~(h.returned.kind = "Err" /\ h.returned.error.type = "DuplicateLabel")

IsOverlap(ret) == ret.kind = "Err" /\ ret.error.type = "MemoryOverlap"

Consecutive(seq, first) == \A k \in DOMAIN seq : seq[k] = first + k - 1

(***************************************************************************)
(* C1: every call of insert_placement on an address that already holds a   *)
(* placement (from an earlier line or earlier in the same line) ends       *)
(* layout_memory with MemoryOverlap{address} for that very address, and    *)
(* nothing is written at or after that call.                               *)
(***************************************************************************)
C1_OverlapFails ==
    \A i \in DOMAIN history :
        LET h == history[i]
        IN  \A k \in DOMAIN h.called :
                (h.called[k] \in DOMAIN h.memory
                    \cup { h.called[j] : j \in 1..(k - 1) })
                => /\ h.returned = Err(MemoryOverlap(h.called[k]))
                   /\ k = Len(h.called)
                   /\ Len(h.written) = k - 1
                   /\ returned = h.returned

\* `.string "ab"` / `.addr 1001` / `.word a`: the word meets the "b".
C1_Witness ==
    /\ Len(history) = 3
    /\ returned = Err(MemoryOverlap(PROGRAM_START + 1))
    /\ history[1].line.content = Directive("String", StringLiteral(StringAB))
    /\ history[3].line.content.type = "Directive"
    /\ history[3].line.content.kind = "Word"
    /\ history[3].called = <<PROGRAM_START + 1>>
    /\ layout.memory[PROGRAM_START + 1] = Char(98)

(***************************************************************************)
(* C2: in a successful result no address is written twice: the addresses   *)
(* written by two distinct lines are disjoint, and `memory` has as many    *)
(* entries as cells were written by all the lines together.                *)
(***************************************************************************)
C2_WritesDisjoint ==
    returned.kind = "Ok" =>
        /\ \A i, j \in DOMAIN history :
              i # j => Range(history[i].written)
                           \cap Range(history[j].written) = {}
        /\ Cardinality(DOMAIN returned.layout.memory) = CellsWritten(history)
        /\ \A i \in DOMAIN history :
              Range(history[i].written) \subseteq DOMAIN returned.layout.memory

\* Two lines wrote cells, the second one after `.addr` moved the cursor back
\* below the first.
C2_Witness ==
    /\ returned.kind = "Ok"
    /\ Len(history) = 3
    /\ history[1].written # <<>>
    /\ match_arm(history[2].line.content) = "Addr"
    /\ history[3].written # <<>>
    /\ history[3].before < history[1].before

(***************************************************************************)
(* C3: the labels of a line are processed in declared order; the first one *)
(* that is already in the table (from an earlier line, or repeated earlier *)
(* on the same line) ends layout_memory with DuplicateLabel naming it;     *)
(* otherwise every label of the line is bound to the cursor the line       *)
(* started with.                                                           *)
(***************************************************************************)
IsDuplicate(h, k) ==
    \/ h.line.symbols[k] \in DOMAIN h.labels
    \/ \E j \in 1..(k - 1) : h.line.symbols[j] = h.line.symbols[k]

C3_LabelsInOrder ==
    \A i \in DOMAIN history :
        LET h    == history[i]
            syms == h.line.symbols
            dups == { k \in DOMAIN syms : IsDuplicate(h, k) }
        IN  IF dups # {}
            THEN LET first == CHOOSE k \in dups : \A m \in dups : k <= m
                 IN  /\ h.returned = Err(DuplicateLabel(syms[first]))
                     /\ \A k \in 1..(first - 1) :
                            h.labels_after[syms[k]] = h.before
                     /\ h.written = <<>>
            ELSE /\ ContentReached(h)
                 /\ DOMAIN h.labels_after = DOMAIN h.labels \cup Range(syms)
                 /\ \A k \in DOMAIN syms : h.labels_after[syms[k]] = h.before
                 /\ \A n \in DOMAIN h.labels : h.labels_after[n] = h.labels[n]

\* "b" is bound on one line and declared again, after a fresh "a", on a
\* later one.
C3_Witness ==
    /\ returned = Err(DuplicateLabel("b"))
    /\ Len(history) >= 2
    /\ history[Len(history)].line.symbols = <<"a", "b">>
    /\ "b" \in DOMAIN history[Len(history)].labels
    /\ layout.labels["a"] = position

(***************************************************************************)
(* C4: a line whose content is an instruction or a .word directive, once   *)
(* its labels are in and the cell is free, writes exactly one Line(content)*)
(* cell at the cursor and advances the cursor by exactly 1; in a program   *)
(* made of such lines only, the labels of line i are bound to              *)
(* PROGRAM_START + i - 1.                                                  *)
(***************************************************************************)
IsLineCell(content) ==
    \/ content.type = "Instruction"
    \/ content.type = "Directive" /\ content.kind = "Word"

C4_OneCellPerLine ==
    /\ \A i \in DOMAIN history :
          LET h == history[i]
          IN  (IsLineCell(h.line.content) /\ ContentReached(h))
              => /\ h.called = <<h.before>>
                 /\ h.returned = Running \/ h.returned = Err(MemoryOverlap(h.before))
                 /\ h.returned = Running =>
                       /\ h.written = <<h.before>>
                       /\ h.memory_after =
                              (h.before :> PlacementLine(h.line.content)) @@ h.memory
                       /\ h.after = h.before + 1
    /\ (\A i \in DOMAIN history :
            IsLineCell(history[i].line.content) /\ history[i].returned = Running)
       => \A i \in DOMAIN history :
              \A k \in DOMAIN history[i].line.symbols :
                  layout.labels[history[i].line.symbols[k]] = PROGRAM_START + i - 1

\* Three labelled instruction / .word lines in a row.
C4_Witness ==
    /\ returned.kind = "Ok"
    /\ Len(history) = 3
    /\ \A i \in 1..3 : IsLineCell(history[i].line.content)
    /\ history[1].line.symbols = <<"a">>
    /\ history[2].line.content.type = "Directive"
    /\ history[3].line.symbols = <<"b">>
    /\ returned.layout.labels["b"] = PROGRAM_START + 2
    /\ DOMAIN returned.layout.memory = PROGRAM_START..(PROGRAM_START + 2)

(***************************************************************************)
(* C5: a `.space expr` line whose expression evaluates to n >= 0 calls     *)
(* insert_placement on cursor, cursor+1, ...; unless one of them is        *)
(* occupied it writes exactly n Reserved cells at cursor..cursor+n-1 and   *)
(* leaves the cursor at cursor+n.  `.space 0` writes nothing and leaves    *)
(* the cursor where it was.                                                *)
(***************************************************************************)
IsSpace(content) ==
    /\ content.type = "Directive"
    /\ content.kind = "Space"
    /\ content.argument.type = "Expression"

C5_SpaceReserves ==
    \A i \in DOMAIN history :
        LET h == history[i]
            v == evaluate_value(h.line.content.argument.node, EmptyContext)
            n == v.value
        IN  (IsSpace(h.line.content) /\ ContentReached(h)
                /\ v.kind = "Ok" /\ n >= 0)
            => /\ h.returned = Running \/ IsOverlap(h.returned)
               /\ Consecutive(h.called, h.before)
               /\ h.returned = Running =>
                     /\ Len(h.written) = n
                     /\ Consecutive(h.written, h.before)
                     /\ h.after = h.before + n
                     /\ DOMAIN h.memory_after =
                            DOMAIN h.memory \cup h.before..(h.before + n - 1)
                     /\ \A a \in h.before..(h.before + n - 1) :
                            h.memory_after[a] = Reserved
                     /\ \A a \in DOMAIN h.memory :
                            h.memory_after[a] = h.memory[a]

\* `.space 2` then `.space 0` then a label: the label is two cells on.
C5_Witness ==
    /\ Len(history) = 3
    /\ returned = Running
    /\ history[1].line.content = Directive("Space", Expression(Literal(2)))
    /\ history[2].line.content = Directive("Space", Expression(Literal(0)))
    /\ history[2].written = <<>>
    /\ history[2].after = history[2].before
    /\ history[3].line.symbols = <<"a">>
    /\ layout.labels["a"] = PROGRAM_START + 2
    /\ layout.memory[PROGRAM_START + 1] = Reserved

(***************************************************************************)
(* C6: a `.string "s"` line writes one Char cell per Unicode scalar of s,  *)
(* in order, at consecutive addresses from the cursor, and advances the    *)
(* cursor by the number of scalars, which is neither the number of bytes   *)
(* nor the number of UTF-16 units; the empty string writes nothing.        *)
(***************************************************************************)
IsString(content) ==
    /\ content.type = "Directive"
    /\ content.kind = "String"
    /\ content.argument.type = "StringLiteral"

\* The scalars of the input strings: "", "ab", and U+00E9 U+1F699.
Scalars(string) ==
    CASE string = StringEmpty -> <<>>
      [] string = StringAB    -> <<97, 98>>
      [] string = StringWide  -> <<233, 128665>>

Utf16Units(scalars) ==
    Len(scalars) + Cardinality({ k \in DOMAIN scalars : scalars[k] >= 65536 })

C6_StringScalars ==
    \A i \in DOMAIN history :
        LET h  == history[i]
            cs == Scalars(h.line.content.argument.string)
        IN  (IsString(h.line.content) /\ ContentReached(h))
            => /\ h.returned = Running \/ IsOverlap(h.returned)
               /\ Consecutive(h.called, h.before)
               /\ h.returned = Running =>
                     /\ Len(h.written) = Len(cs)
                     /\ Consecutive(h.written, h.before)
                     /\ h.after = h.before + Len(cs)
                     /\ DOMAIN h.memory_after =
                            DOMAIN h.memory \cup Range(h.written)
                     /\ \A k \in DOMAIN cs :
                            h.memory_after[h.before + k - 1] = Char(cs[k])

\* The two-scalar string of six bytes and three UTF-16 units takes two cells.
C6_Witness ==
    /\ Len(history) >= 2
    /\ returned = Running
    /\ history[1].line = Line(<<>>, Directive("String", StringLiteral(StringWide)))
    /\ history[1].after - history[1].before = 2
    /\ Len(StringWide) = 6
    /\ Utf16Units(Scalars(StringWide)) = 3
    /\ layout.memory[PROGRAM_START + 1] = Char(128665)
    /\ history[2].line.content = Directive("String", StringLiteral(StringEmpty))
    /\ history[2].written = <<>>

(***************************************************************************)
(* C7: an `.addr expr` line whose expression evaluates to an address       *)
(* writes no cell and binds nothing but the labels of its own line (at the *)
(* old cursor); it sets the cursor to the value, lower than the old cursor *)
(* or below PROGRAM_START as it may be, and the next line binds its labels *)
(* and writes its first cell at that value.                                *)
(***************************************************************************)
IsAddr(content) ==
    /\ content.type = "Directive"
    /\ content.kind = "Addr"
    /\ content.argument.type = "Expression"

C7_AddrSetsCursor ==
    \A i \in DOMAIN history :
        LET h == history[i]
            v == evaluate_value(h.line.content.argument.node, EmptyContext)
        IN  (IsAddr(h.line.content) /\ ContentReached(h)
                /\ v.kind = "Ok" /\ v.value >= 0)
            => /\ h.returned = Running
               /\ h.called = <<>>
               /\ h.memory_after = h.memory
               /\ DOMAIN h.labels_after = DOMAIN h.labels \cup Range(h.line.symbols)
               /\ \A n \in Range(h.line.symbols) : h.labels_after[n] = h.before
               /\ h.after = v.value
               /\ (i + 1) \in DOMAIN history =>
                     LET g == history[i + 1]
                     IN  /\ g.before = v.value
                         /\ g.called # <<>> => g.called[1] = v.value
                         /\ ContentReached(g) =>
                               \A n \in Range(g.line.symbols) :
                                   g.labels_after[n] = v.value

\* After a cell at PROGRAM_START, `.addr 10` takes the cursor below
\* PROGRAM_START and the next line's label and cell land on 10.
C7_Witness ==
    /\ Len(history) = 3
    /\ returned = Running
    /\ history[1].written = <<PROGRAM_START>>
    /\ history[2].line.content = Directive("Addr", Expression(Literal(10)))
    /\ history[2].after < history[2].before
    /\ history[2].after < PROGRAM_START
    /\ history[3].line.symbols = <<"a">>
    /\ history[3].written = <<10>>
    /\ layout.labels["a"] = 10

(***************************************************************************)
(* C8 (as stated): for every directive kind, Word included, a directive    *)
(* whose argument shape does not match its kind ends layout_memory with    *)
(* InvalidDirectiveArgument{kind} and no cell is placed for it.            *)
(***************************************************************************)
Mismatched(content) ==
    /\ content.type = "Directive"
    /\ \/ content.kind \in {"Word", "Space", "Addr"}
          /\ content.argument.type = "StringLiteral"
       \/ content.kind = "String" /\ content.argument.type = "Expression"

Rejected(h) ==
    /\ h.returned = Err(InvalidDirectiveArgument(h.line.content.kind))
    /\ h.called = <<>>
    /\ h.memory_after = h.memory
    /\ h.after = h.before

C8_Original ==
    \A i \in DOMAIN history :
        (Mismatched(history[i].line.content) /\ ContentReached(history[i]))
        => Rejected(history[i])

(***************************************************************************)
(* C8 (amended): for the kinds Space, Addr and String a directive whose    *)
(* argument shape does not match ends layout_memory with                   *)
(* InvalidDirectiveArgument{kind} and places no cell; a .word directive    *)
(* with a string literal is not rejected, it takes the one-cell arm and is *)
(* placed as a Line cell.                                                  *)
(***************************************************************************)
C8_MismatchRejected ==
    \A i \in DOMAIN history :
        LET h == history[i]
        IN  (Mismatched(h.line.content) /\ ContentReached(h))
            => IF h.line.content.kind = "Word"
               THEN /\ h.called = <<h.before>>
                    /\ h.returned = Running \/ IsOverlap(h.returned)
                    /\ h.returned = Running =>
                          h.memory_after[h.before] = PlacementLine(h.line.content)
               ELSE Rejected(h)

\* `.space "ab"` on the second line, after a line that placed a cell.
C8_Witness ==
    /\ Len(history) = 2
    /\ history[1].written # <<>>
    /\ history[2].line.content = Directive("Space", StringLiteral(StringAB))
    /\ returned = Err(InvalidDirectiveArgument("Space"))
    /\ layout.memory = history[2].memory

(***************************************************************************)
(* C9 (as the specification states it; the code does otherwise): a         *)
(* `.space` or `.addr` argument that references any identifier, bound as a *)
(* label or not, ends layout_memory with DirectiveArgumentEvaluation{kind, *)
(* UndefinedVariable{variable}} naming the kind and an identifier of the   *)
(* expression.                                                             *)
(***************************************************************************)
RECURSIVE Identifiers(_)
Identifiers(node) ==
    CASE node.op = "Literal"  -> {}
      [] node.op = "Variable" -> {node.name}
      [] node.op \in BinaryOps ->
            Identifiers(node.left) \cup Identifiers(node.right)
      [] OTHER -> Identifiers(node.operand)

EvaluatedWithIdentifier(h) ==
    /\ IsSpace(h.line.content) \/ IsAddr(h.line.content)
    /\ ContentReached(h)
    /\ Identifiers(h.line.content.argument.node) # {}

UndefinedIn(h, x) ==
    Err(DirectiveArgumentEvaluation(h.line.content.kind, UndefinedVariable(x)))

C9_Original ==
    \A i \in DOMAIN history :
        EvaluatedWithIdentifier(history[i])
        => \E x \in Identifiers(history[i].line.content.argument.node) :
               history[i].returned = UndefinedIn(history[i], x)

(***************************************************************************)
(* C10: the cells one line writes are at contiguous increasing addresses   *)
(* starting at the cursor, and a line that is not an `.addr` directive     *)
(* never leaves the cursor lower than it found it, however the line ends.  *)
(***************************************************************************)
C10_CursorMonotone ==
    \A i \in DOMAIN history :
        LET h == history[i]
        IN  /\ \A k \in 1..(Len(h.written) - 1) :
                   h.written[k + 1] = h.written[k] + 1
            /\ h.written # <<>> => h.written[1] = h.before
            /\ ~IsAddr(h.line.content) => h.after >= h.before
            /\ h.after < h.before =>
                   /\ IsAddr(h.line.content)
                   /\ h.written = <<>>

\* Two cells for "ab", `.addr 10` takes the cursor back, `.space 2` fills
\* 10 and 11.
C10_Witness ==
    /\ Len(history) = 3
    /\ returned = Running
    /\ history[1].written = <<PROGRAM_START, PROGRAM_START + 1>>
    /\ history[2].after < history[2].before
    /\ history[3].line.content = Directive("Space", Expression(Literal(2)))
    /\ history[3].written = <<10, 11>>
    /\ position = 12

(***************************************************************************)
(* C11: a label declared on a line with no content is bound to the cursor  *)
(* of that line and keeps that address; it is the address of the first     *)
(* cell written by a later line whenever no `.addr` directive stands       *)
(* between the label and that cell.                                        *)
(***************************************************************************)
LabelOnly(h) ==
    /\ h.line.content.type = "None"
    /\ h.line.symbols # <<>>
    /\ h.returned = Running

\* The lines after line i that wrote a cell, and the first of them.
LaterWriters(i) == { j \in DOMAIN history : j > i /\ history[j].written # <<>> }

NextWriter(i) == CHOOSE j \in LaterWriters(i) : \A m \in LaterWriters(i) : j <= m

AddrBetween(i, j) ==
    \E k \in (i + 1)..(j - 1) : IsAddr(history[k].line.content)

\* C11 as stated: the label is the address of the next placement whatever
\* stands in between.
C11_Original ==
    returned.kind = "Ok" =>
        \A i \in DOMAIN history :
            LabelOnly(history[i]) =>
                \A k \in DOMAIN history[i].line.symbols :
                    LET sym == history[i].line.symbols[k]
                    IN  /\ sym \in DOMAIN layout.labels
                        /\ LaterWriters(i) # {} =>
                               layout.labels[sym] =
                                   history[NextWriter(i)].written[1]

C11_LabelOnlyLine ==
    \A i \in DOMAIN history :
        LabelOnly(history[i]) =>
            \A k \in DOMAIN history[i].line.symbols :
                LET sym == history[i].line.symbols[k]
                IN  /\ sym \in DOMAIN layout.labels
                    /\ layout.labels[sym] = history[i].before
                    /\ (LaterWriters(i) # {}
                        /\ ~AddrBetween(i, NextWriter(i))) =>
                           layout.labels[sym] =
                               history[NextWriter(i)].written[1]

\* `a:` alone, an empty `.space 0` in between, then an instruction: the
\* label is the address of the instruction.
C11_Witness ==
    /\ returned.kind = "Ok"
    /\ Len(history) = 3
    /\ history[1].line = Line(<<"a">>, NoContent)
    /\ history[2].line.content = Directive("Space", Expression(Literal(0)))
    /\ history[3].line = Line(<<>>, Instruction("jmp"))
    /\ history[3].written = <<layout.labels["a"]>>

(***************************************************************************)
(* C12: all the labels of one line are bound to the same address, the      *)
(* cursor the line started with; when the line writes cells that address   *)
(* is the address of the first cell it writes; two distinct labels can     *)
(* share an address in a successful layout.                                *)
(***************************************************************************)
C12_LabelsShareCursor ==
    \A i \in DOMAIN history :
        LET h == history[i]
        IN  ContentReached(h) =>
                /\ \A j, k \in DOMAIN h.line.symbols :
                       /\ h.labels_after[h.line.symbols[j]]
                              = h.labels_after[h.line.symbols[k]]
                       /\ layout.labels[h.line.symbols[k]] = h.before
                /\ (h.written # <<>> /\ h.line.symbols # <<>>) =>
                       \A k \in DOMAIN h.line.symbols :
                           /\ layout.labels[h.line.symbols[k]] = h.written[1]
                           /\ h.written[1] \in DOMAIN layout.memory

\* `a: b: .string "ab"` after an instruction: both labels are the address
\* of the cell holding 'a'.
C12_Witness ==
    /\ returned.kind = "Ok"
    /\ Len(history) = 2
    /\ history[2].line = Line(<<"a", "b">>,
                              Directive("String", StringLiteral(StringAB)))
    /\ layout.labels["a"] = layout.labels["b"]
    /\ layout.labels["a"] = PROGRAM_START + 1
    /\ layout.memory[layout.labels["a"]] = Char(97)

(***************************************************************************)
(* C14: memory_report returns exactly one (address, rendered) pair per     *)
(* cell of the layout's memory, holding the text of that cell's placement, *)
(* in strictly increasing address order, and leaves the layout as it was.  *)
(***************************************************************************)
Reported == call_input.fn = "memory_report" /\ call_output # NoOutput

\* The text each placement of the layouts of these calls is printed as,
\* written out one by one: SPACE, the character between quotes (`'a'`,
\* `'\n'`, `'\u{a0}'`, and U+0CF3 as itself or as `'\u{cf3}'` as the
\* tables of the build have it), the opcode on four columns with its
\* arguments, `.kind: argument`.
ReportText(placement, std) ==
    CASE placement = Reserved  -> <<"SPACE">>
      [] placement = Char(97)  -> <<"'", 97, "'">>
      [] placement = Char(10)  -> <<"'", 92, 110, "'">>
      [] placement = Char(160) -> <<"'", 92, 117, 123, 97, 48, 125, "'">>
      [] placement = Char(3315) ->
            IF 3315 \in std.grapheme_extended \/ 3315 \notin std.printable
            THEN <<"'", 92, 117, 123, 99, 102, 51, 125, "'">>
            ELSE <<"'", 3315, "'">>
      [] placement = PlacementLine(Instruction("jmp")) ->
            <<[text |-> "jmp", width |-> 4]>>
      [] placement = PlacementLine(InstructionWith("add", <<"%a", "%b">>)) ->
            <<[text |-> "add", width |-> 4], " ", "%a", ",", " ", "%b">>
      [] placement = PlacementLine(Directive("Word", Expression(Literal(3)))) ->
            <<".", "Word", ": ", Expression(Literal(3))>>

C14_ReportSorted ==
    Reported =>
        LET pairs == call_output.pairs
        IN  /\ Len(pairs) = Cardinality(DOMAIN call_input.self.memory)
            /\ \A a \in DOMAIN call_input.self.memory :
                   \E i \in DOMAIN pairs :
                       pairs[i] = <<a, ReportText(call_input.self.memory[a],
                                                  call_input.std)>>
            /\ \A i \in 1..(Len(pairs) - 1) : pairs[i][1] < pairs[i + 1][1]
            /\ layout = call_input.self
            /\ returned = Ok(layout)

\* Four cells visited from the highest address down, the build printing
\* U+0CF3 as it is: the report lists them from the lowest up.
C14_Witness ==
    /\ Reported
    /\ call_output.iterated = <<PROGRAM_START + 1, PROGRAM_START, 11, 10>>
    /\ call_input.std = [grapheme_extended |-> {}, printable |-> {3315}]
    /\ layout.memory[10] = Reserved
    /\ layout.memory[11] = Char(3315)
    /\ layout.memory[PROGRAM_START] =
           PlacementLine(InstructionWith("add", <<"%a", "%b">>))
    /\ layout.memory[PROGRAM_START + 1] = Char(10)
    /\ call_output.pairs =
           << <<10, <<"SPACE">> >>,
              <<11, <<"'", 3315, "'">> >>,
              <<PROGRAM_START,
                <<[text |-> "add", width |-> 4], " ", "%a", ",", " ", "%b">> >>,
              <<PROGRAM_START + 1, <<"'", 92, 110, "'">> >> >>

(***************************************************************************)
(* Helpers of the properties of Node::evaluate                             *)
(***************************************************************************)
Evaluated == call_input.fn = "evaluate" /\ call_output # NoOutput

\* Both operands of the binary node under evaluation evaluate to a value.
OperandsOk ==
    /\ call_input.node.op \in BinaryOps
    /\ evaluate_value(call_input.node.left, call_input.context).kind = "Ok"
    /\ evaluate_value(call_input.node.right, call_input.context).kind = "Ok"

LeftValue  == evaluate_value(call_input.node.left, call_input.context).value
RightValue == evaluate_value(call_input.node.right, call_input.context).value

(***************************************************************************)
(* C15 as stated: evaluating a Divide node whose right operand evaluates   *)
(* to zero returns the error DivideByZero as a value, whatever the left    *)
(* operand and the context.                                                *)
(***************************************************************************)
C15_Original ==
    (Evaluated /\ call_input.node.op = "Divide" /\ OperandsOk /\ RightValue = 0)
        => /\ call_output.kind = "Err"
           /\ call_output.error.type = "DivideByZero"

(***************************************************************************)
(* C16 as stated: evaluating a LeftShift or RightShift node returns the    *)
(* error ShiftOutOfRange when the shift amount is outside 0..63, and the   *)
(* shifted value when it is inside.                                        *)
(***************************************************************************)
C16_Original ==
    (Evaluated /\ call_input.node.op \in {"LeftShift", "RightShift"} /\ OperandsOk)
        => IF RightValue < 0 \/ RightValue > 63
           THEN /\ call_output.kind = "Err"
                /\ call_output.error.type = "ShiftOutOfRange"
           ELSE call_output = try_from(call_input.V,
                             IF call_input.node.op = "LeftShift"
                             THEN shl(LeftValue, RightValue)
                             ELSE shr(LeftValue, RightValue))

(***************************************************************************)
(* C17 as stated: evaluating a BinaryNot node whose operand evaluates to a *)
(* value returns a value and does not abort.                               *)
(***************************************************************************)
C17_Original ==
    (/\ Evaluated
     /\ call_input.node.op = "BinaryNot"
     /\ evaluate_value(call_input.node.operand, call_input.context).kind = "Ok")
        => call_output.kind = "Ok"

(***************************************************************************)
(* C18: Node::evaluate narrows the final Value only: when the expression   *)
(* computes a Value, the call fails with Downcast exactly when that Value  *)
(* is not representable in the requested type and returns it otherwise,    *)
(* whatever the values of the sub-expressions; when no Value is computed   *)
(* the outcome is that of the computation, never Downcast.                 *)
(***************************************************************************)
Representable(V, value) ==
    CASE V = "Value"   -> TRUE
      [] V = "i32"     -> I32_MIN <= value /\ value <= I32_MAX
      [] V = "Address" -> 0 <= value

C18_NarrowsFinalValue ==
    Evaluated =>
        LET computed == evaluate_value(call_input.node, call_input.context)
        IN  IF computed.kind = "Ok"
            THEN call_output = IF Representable(call_input.V, computed.value)
                          THEN EvalOk(computed.value)
                          ELSE EvalErr(Downcast)
            ELSE /\ call_output = computed
                 /\ call_output # EvalErr(Downcast)

\* `-1 + 1001` asked as an Address: the operand -1 is no Address, the total
\* 1000 is.
C18_Witness ==
    /\ Evaluated
    /\ call_input.node = Sum(Invert(Literal(1)), Literal(PROGRAM_START + 1))
    /\ call_input.V = "Address"
    /\ ~Representable("Address", LeftValue)
    /\ call_output = EvalOk(PROGRAM_START)

(***************************************************************************)
(* Helpers of the properties of parse_expression: the value of a shape     *)
(* `a op1 b op2 c`, computed from the precedence table.                    *)
(***************************************************************************)
Prec(op) ==
    CASE op = <<"|">> -> 1
      [] op = <<"&">> -> 2
      [] op \in {<<"<", "<">>, <<">", ">">>} -> 3
      [] op \in {<<"+">>, <<"-">>} -> 4
      [] op \in {<<"*">>, <<"/">>} -> 5

\* The operator has a value on these operands: no division by zero, no
\* shift by a negative amount.
OpDefined(op, x, y) ==
    CASE op = <<"/">> -> y # 0
      [] op \in {<<"<", "<">>, <<">", ">">>} -> y >= 0
      [] OTHER -> TRUE

OpValue(op, x, y) ==
    CASE op = <<"|">> -> BitOr(x, y)
      [] op = <<"&">> -> BitAnd(x, y)
      [] op = <<"<", "<">> -> x * Pow2(y)
      [] op = <<">", ">">> ->
             IF y >= 31 THEN (IF x < 0 THEN -1 ELSE 0) ELSE x \div Pow2(y)
      [] op = <<"+">> -> x + y
      [] op = <<"-">> -> x - y
      [] op = <<"*">> -> x * y
      [] op = <<"/">> -> TruncDiv(x, y)

\* Which operator applies first: the parenthesised one, else the one of
\* higher precedence, else (equal precedence) the left one.
GroupsLeft(s) ==
    \/ s.paren = "left"
    \/ s.paren = "none" /\ Prec(s.op2) <= Prec(s.op1)

\* Two shifts in a row without parentheses are not in the grammar.
InGrammar(s) == ~(s.paren = "none" /\ Prec(s.op1) = 3 /\ Prec(s.op2) = 3)

ShapeA(s) == IF s.neg = "a" THEN -s.a ELSE s.a
ShapeC(s) == IF s.neg = "c" THEN -s.c ELSE s.c

MathDefined(s) ==
    IF GroupsLeft(s)
    THEN /\ OpDefined(s.op1, ShapeA(s), s.b)
         /\ OpDefined(s.op2, OpValue(s.op1, ShapeA(s), s.b), ShapeC(s))
    ELSE /\ OpDefined(s.op2, s.b, ShapeC(s))
         /\ OpDefined(s.op1, ShapeA(s), OpValue(s.op2, s.b, ShapeC(s)))

MathValue(s) ==
    IF GroupsLeft(s)
    THEN OpValue(s.op2, OpValue(s.op1, ShapeA(s), s.b), ShapeC(s))
    ELSE OpValue(s.op1, ShapeA(s), OpValue(s.op2, s.b, ShapeC(s)))

\* Every shift of the shape is by an amount the i128 shift accepts.
ShiftsInRange(s) ==
    LET inRange(op, y) == Prec(op) = 3 => y < VALUE_BITS
    IN  IF GroupsLeft(s)
        THEN inRange(s.op1, s.b) /\ inRange(s.op2, ShapeC(s))
        ELSE /\ inRange(s.op2, ShapeC(s))
             /\ inRange(s.op1, OpValue(s.op2, s.b, ShapeC(s)))

ParsedShape ==
    /\ call_input.fn = "parse_expression"
    /\ call_output # NoOutput
    /\ call_input.shaped

(***************************************************************************)
(* C19: for every literal-only expression of the grammar that has a value  *)
(* (no division by zero, every shift amount in 0..127), parse_expression   *)
(* followed by evaluate with the empty context returns the value the       *)
(* precedence Or < And < Shift < Sum < Mul < Unary and left association    *)
(* give it; two unparenthesised shifts in a row are not in the grammar and *)
(* are left unparsed.                                                      *)
(***************************************************************************)
C19_ParseThenEvaluate ==
    ParsedShape =>
        LET s == call_input.shape
        IN  /\ (InGrammar(s) /\ MathDefined(s) /\ ShiftsInRange(s))
                   => call_output = EvalOk(MathValue(s))
            /\ ~InGrammar(s) => call_output.kind = "Unparsed"

\* `5 + 2 * 3` is 11 and not 21.
C19_Witness ==
    /\ ParsedShape
    /\ call_input.text = <<"5", " ", "+", " ", "2", " ", "*", " ", "3">>
    /\ call_output = EvalOk(11)

(***************************************************************************)
(* Helpers of the properties of parse_program                              *)
(***************************************************************************)
ProgramParsed == call_input.fn = "parse_program" /\ call_output # NoOutput

\* The shape of an argument text: a string literal starts with a quote.
TextShape(t) == IF Head(t) = "\"" THEN "StringLiteral" ELSE "Expression"

(***************************************************************************)
(* C20 as stated: parse_program fails on a directive line whose argument   *)
(* shape does not match the kind, and no line of a parsed Program holds a  *)
(* directive with a mismatched argument.                                   *)
(***************************************************************************)
C20_Original ==
    ProgramParsed =>
        /\ (call_input.directive
            /\ (TextShape(call_input.argument) = "StringLiteral")
                   # (call_input.kind = "String"))
               => call_output.kind = "ParseError"
        /\ call_output.kind = "Program" =>
               \A i \in DOMAIN call_output.lines :
                   ~Mismatched(call_output.lines[i].content)

(***************************************************************************)
(* C20: the line grammar does not relate the shape of the argument to the  *)
(* kind of the directive: parse_program accepts `.kind argument` for every *)
(* directive name and every argument text that is a string literal or an   *)
(* expression, and the line holds that kind with the argument as its text  *)
(* alone makes it (a string literal or an expression).                     *)
(***************************************************************************)
C20_ShapeFromTextAlone ==
    (ProgramParsed /\ call_input.directive) =>
        /\ call_output.kind = "Program"
        /\ LET content == call_output.lines[1].content
           IN  /\ content.type = "Directive"
               /\ content.kind = call_input.kind
               /\ content.argument.type = TextShape(call_input.argument)
               /\ content.argument =
                      parse_directive_argument(call_input.argument).node

\* `.space "ab"` is parsed, as a Space directive holding a string literal.
C20_Witness ==
    /\ ProgramParsed
    /\ call_input.text =
           <<".", "s", "p", "a", "c", "e", " ", "\"", "a", "b", "\"">>
    /\ call_output.kind = "Program"
    /\ call_output.lines[1].content =
           Directive("Space", StringLiteral(StringAB))
    /\ Mismatched(call_output.lines[1].content)

(***************************************************************************)
(* C25 (as the specification states it; the code does otherwise): a        *)
(* `.space expr` line whose expression evaluates to a negative value ends  *)
(* layout_memory with an error for that directive, so that no successful   *)
(* layout is returned.                                                     *)
(***************************************************************************)
NegativeSpace(h) ==
    /\ IsSpace(h.line.content)
    /\ ContentReached(h)
    /\ evaluate_value(h.line.content.argument.node, EmptyContext).kind = "Ok"
    /\ evaluate_value(h.line.content.argument.node, EmptyContext).value < 0

C25_Original ==
    \A i \in DOMAIN history :
        NegativeSpace(history[i]) => history[i].returned.kind = "Err"

(***************************************************************************)
(* C30: layout_memory fails with the first fault in processing order.  No  *)
(* line is processed after a failing one.  On a line, a label that is      *)
(* already bound (the first such label of the line) gives DuplicateLabel   *)
(* whatever the content would do; with no duplicate label, cells that the  *)
(* content asks for and that are occupied give MemoryOverlap of the lowest *)
(* occupied address.  The error is what layout_memory returns, and the     *)
(* returned value holds no layout.                                         *)
(***************************************************************************)
Min(S) == CHOOSE x \in S : \A y \in S : x <= y

DuplicateAt(h) == { k \in DOMAIN h.line.symbols : IsDuplicate(h, k) }

\* The number of cells the content of the line asks for.
CellsAsked(content) ==
    IF IsLineCell(content) THEN 1
    ELSE IF IsString(content) THEN Len(Scalars(content.argument.string))
    ELSE IF IsSpace(content)
            /\ evaluate_value(content.argument.node, EmptyContext).kind = "Ok"
         THEN evaluate_value(content.argument.node, EmptyContext).value
    ELSE 0

OccupiedAsked(h) ==
    { a \in h.before..(h.before + CellsAsked(h.line.content) - 1) :
        a \in DOMAIN h.memory }

C30_FirstFault ==
    /\ \A i \in DOMAIN history :
           i < Len(history) => history[i].returned = Running
    /\ returned.kind = "Err" =>
           /\ history # <<>>
           /\ history[Len(history)].returned = returned
           /\ DOMAIN returned = {"kind", "error"}
    /\ \A i \in DOMAIN history :
           LET h == history[i]
           IN  /\ DuplicateAt(h) # {} =>
                      h.returned = Err(DuplicateLabel(
                                       h.line.symbols[Min(DuplicateAt(h))]))
               /\ (DuplicateAt(h) = {} /\ OccupiedAsked(h) # {}) =>
                      h.returned = Err(MemoryOverlap(Min(OccupiedAsked(h))))
               /\ h.returned.kind = "Err" => returned = h.returned

\* `a: .space 2` / `.addr 1000` / `a: jmp`: the label of the third line is
\* a duplicate and its instruction would land on a reserved cell.
C30_Witness ==
    /\ Len(history) = 3
    /\ history[1].line = Line(<<"a">>, Directive("Space", Expression(Literal(2))))
    /\ history[2].line.content =
           Directive("Addr", Expression(Literal(PROGRAM_START)))
    /\ history[3].line = Line(<<"a">>, Instruction("jmp"))
    /\ DuplicateAt(history[3]) = {1}
    /\ OccupiedAsked(history[3]) = {PROGRAM_START}
    /\ returned = Err(DuplicateLabel("a"))

(***************************************************************************)
(* C28: computer_steps returns after at most `steps` iterations.  It calls *)
(* step() at most `steps` times, every step() comes right after the one    *)
(* next_instruction() of its iteration, and the instruction list has one   *)
(* entry per iteration started, hence at most `steps` entries.             *)
(***************************************************************************)
StepsCalled == call_input.fn = "computer_steps" /\ call_output # NoOutput

CountOf(seq, x) == Cardinality({ k \in DOMAIN seq : seq[k] = x })

C28_StepsBounded ==
    StepsCalled =>
        LET calls == call_output.calls
        IN  /\ CountOf(calls, "step") <= call_input.steps
            /\ CountOf(calls, "next_instruction") <= call_input.steps
            /\ \A k \in DOMAIN calls :
                   /\ calls[k] \in {"next_instruction", "step"}
                   /\ calls[k] = "next_instruction" <=> k % 2 = 1
            /\ Len(call_output.instructions)
                   = CountOf(calls, "next_instruction")
            /\ Len(call_output.instructions) <= call_input.steps

\* A computer that never stops, run for MaxSteps steps.
C28_Witness ==
    /\ StepsCalled
    /\ call_input.steps = MaxSteps
    /\ CountOf(call_output.calls, "step") = MaxSteps
    /\ Len(call_output.instructions) = MaxSteps
    /\ call_output.status = Err(Exception(HardwareInterrupt))

(***************************************************************************)
(* C29: the result of computer_steps is decided by the first iteration     *)
(* within the budget in which next_instruction() fails or step() returns   *)
(* an error.  If next_instruction() fails, its error is returned and       *)
(* step() is not called in that iteration; if step() returns Reset the     *)
(* result is Ok(()); if step() returns another error, that error is        *)
(* returned.  No call is made after that iteration.  With no such          *)
(* iteration (steps = 0 included) the result is                            *)
(* Err(Exception(HardwareInterrupt)).  Hence Ok(()) is returned exactly    *)
(* when a step() within the budget returned Reset before any error.        *)
(***************************************************************************)
Eventful(i) ==
    \/ behaviour(call_input.computer, i).next.kind = "Err"
    \/ behaviour(call_input.computer, i).step.kind = "Err"

FirstEvent ==
    IF \E i \in 1..call_input.steps : Eventful(i)
    THEN CHOOSE i \in 1..call_input.steps :
             Eventful(i) /\ \A j \in 1..(i - 1) : ~Eventful(j)
    ELSE 0

C29_StepsResult ==
    StepsCalled =>
        LET j == FirstEvent
            b == behaviour(call_input.computer, j)
            status == call_output.status
        IN  /\ j = 0 =>
                   /\ status = Err(Exception(HardwareInterrupt))
                   /\ CountOf(call_output.calls, "step") = call_input.steps
            /\ (j > 0 /\ b.next.kind = "Err") =>
                   /\ status = b.next
                   /\ CountOf(call_output.calls, "next_instruction") = j
                   /\ CountOf(call_output.calls, "step") = j - 1
            /\ (j > 0 /\ b.next.kind = "Ok") =>
                   /\ status = IF b.step = Err(Reset) THEN Done ELSE b.step
                   /\ CountOf(call_output.calls, "next_instruction") = j
                   /\ CountOf(call_output.calls, "step") = j
            /\ status = Done <=>
                   (j > 0 /\ b.next.kind = "Ok" /\ b.step = Err(Reset))

\* The second step() returns Reset, with a budget of three steps.
C29_Witness ==
    /\ StepsCalled
    /\ call_input.steps = 3
    /\ FirstEvent = 2
    /\ behaviour(call_input.computer, 2).step = Err(Reset)
    /\ call_output.status = Done
    /\ call_output.calls =
           <<"next_instruction", "step", "next_instruction", "step">>

(***************************************************************************)
(* C27 (as stated): resolve_label(address) returns None on a variant       *)
(* without fields or without a labelable field; on a variant with a        *)
(* labelable field it returns the instruction with the address in that     *)
(* one position, the first that carries the attribute, and every other     *)
(* argument unchanged.                                                     *)
(***************************************************************************)
ResolveCalled == call_input.fn = "resolve_label" /\ call_output # NoOutput

Labelables == { i \in DOMAIN call_input.variant.fields :
                    call_input.variant.fields[i].labelable }

FirstLabelable == CHOOSE i \in Labelables : \A j \in Labelables : i <= j

\* The instruction comes back with the address in position k and nothing
\* else changed.
RewrittenAt(k) ==
    /\ call_output.result.some
    /\ call_output.result.value.ident = call_input.self.ident
    /\ DOMAIN call_output.result.value.args = DOMAIN call_input.self.args
    /\ call_output.result.value.args[k].value = call_input.address
    /\ \A j \in DOMAIN call_input.self.args :
           j # k => call_output.result.value.args[j] = call_input.self.args[j]

C27_Original ==
    ResolveCalled =>
        IF Labelables = {} THEN call_output.result = None
        ELSE RewrittenAt(FirstLabelable)

(***************************************************************************)
(* C27 (amended): resolve_label(address) returns None on a variant without *)
(* fields or without a labelable field.  On a variant with a labelable     *)
(* field it asks the argument in the first position that carries the       *)
(* attribute to resolve the label: when that argument cannot hold a label  *)
(* the result is None, otherwise it is the instruction with the address in *)
(* that one position and every other argument unchanged.                   *)
(***************************************************************************)
C27_FirstLabelableRewritten ==
    ResolveCalled =>
        /\ call_output.instruction.labelable =
               IF Labelables = {} THEN None ELSE Some(FirstLabelable - 1)
        /\ IF Labelables = {} THEN call_output.result = None
           ELSE IF call_input.self.args[FirstLabelable].labels
                THEN RewrittenAt(FirstLabelable)
                ELSE call_output.result = None

\* Three fields, the last two labelable, and arguments that can all hold a
\* label: only the second argument is rewritten.
C27_Witness ==
    /\ ResolveCalled
    /\ Labelables = {2, 3}
    /\ \A j \in 1..3 : call_input.self.args[j] = [value |-> 7, labels |-> TRUE]
    /\ call_output.result.some
    /\ call_output.result.value.args[2].value = PROGRAM_START
    /\ call_output.result.value.args[3].value = 7
    /\ call_output.result.value.args[1].value = 7

(***************************************************************************)
(* C24 (as stated): for a source in which no line is a preprocessor        *)
(* directive, the preprocessor's parse consumes the whole input and yields *)
(* one Raw node per line, in order, with the text of the line.             *)
(***************************************************************************)
ParseCalled == call_input.fn = "parse" /\ call_output # NoOutput

DirectiveKeywords ==
    { <<"d", "e", "f", "i", "n", "e">>,
      <<"u", "n", "d", "e", "f", "i", "n", "e">>,
      <<"i", "n", "c", "l", "u", "d", "e">>,
      <<"i", "f">>, <<"e", "l", "i", "f">>, <<"e", "l", "s", "e">>,
      <<"e", "n", "d", "i", "f">>, <<"e", "r", "r", "o", "r">> }

IsDirective(line) ==
    /\ line # <<>>
    /\ Head(line) = "#"
    /\ \E k \in DirectiveKeywords : tag(k, space0(Tail(line))).ok

NoDirective(lines) == \A i \in DOMAIN lines : ~IsDirective(lines[i])

C24_Original ==
    (ParseCalled /\ NoDirective(call_input.lines)) =>
        /\ call_output.rest = <<>>
        /\ call_output.chunks =
               [i \in DOMAIN call_input.lines |-> Raw(call_input.lines[i])]

(***************************************************************************)
(* C26: parse_condition returns a Condition node exactly for a source that *)
(* starts with a properly closed conditional: `#if`, any number of `#elif` *)
(* branches, at most one `#else` with no `#elif` and no second `#else`     *)
(* after it, and the `#endif`, where a conditional inside a branch takes   *)
(* the first `#endif` after it.  The node has one branch for the `#if`     *)
(* and one per `#elif` of the outer conditional, a fallback exactly when   *)
(* the outer conditional has an `#else`, and the input is consumed up to   *)
(* the end of the line of the outer `#endif`.  Without that `#endif`       *)
(* neither parse_condition nor parse returns a Condition node for it.      *)
(***************************************************************************)
ConditionCalled == call_input.fn = "parse_condition" /\ call_output # NoOutput

HasKeyword(line, keyword) ==
    /\ line # <<>>
    /\ Head(line) = "#"
    /\ tag(keyword, space0(Tail(line))).ok

KindOf(line) ==
    IF line = <<>> \/ Head(line) # "#" THEN "raw"
    ELSE IF HasKeyword(line, <<"i", "f">>) THEN "if"
    ELSE IF HasKeyword(line, <<"e", "l", "i", "f">>) THEN "elif"
    ELSE IF HasKeyword(line, <<"e", "l", "s", "e">>) THEN "else"
    ELSE IF HasKeyword(line, <<"e", "n", "d", "i", "f">>) THEN "endif"
    ELSE IF IsDirective(line) THEN "directive"
    ELSE "unknown"

\* A scan of the lines with the stack of the open conditionals (TRUE for
\* one whose `#else` has been seen): the line of the `#endif` that closes
\* the first conditional, 0 when there is none or a line is out of place.
RECURSIVE Closing(_, _, _)
Closing(lines, i, open) ==
    IF i > Len(lines) THEN 0
    ELSE LET kind == KindOf(lines[i])
             top  == Len(open)
         IN  IF kind = "if" THEN Closing(lines, i + 1, Append(open, FALSE))
             ELSE IF kind = "unknown" \/ (top = 0 /\ kind # "raw") THEN 0
             ELSE IF kind = "elif"
             THEN IF open[top] THEN 0 ELSE Closing(lines, i + 1, open)
             ELSE IF kind = "else"
             THEN IF open[top] THEN 0
                  ELSE Closing(lines, i + 1, [open EXCEPT ![top] = TRUE])
             ELSE IF kind = "endif"
             THEN IF top = 1 THEN i
                  ELSE Closing(lines, i + 1, SubSeq(open, 1, top - 1))
             ELSE Closing(lines, i + 1, open)

ClosingLine(lines) ==
    IF KindOf(lines[1]) = "if" THEN Closing(lines, 1, <<>>) ELSE 0

\* The number of conditionals open at line i.
Depth(lines, i) ==
    Cardinality({ j \in 1..i : KindOf(lines[j]) = "if" })
        - Cardinality({ j \in 1..(i - 1) : KindOf(lines[j]) = "endif" })

OuterLines(lines, kind) ==
    { i \in 1..ClosingLine(lines) :
          KindOf(lines[i]) = kind /\ Depth(lines, i) = 1 }

\* What is left of the source after the line `last`.
After(lines, eol, last) ==
    IF last = Len(lines) THEN <<>>
    ELSE eol \o Join(SubSeq(lines, last + 1, Len(lines)), eol)

C26_ProperlyClosed ==
    /\ ConditionCalled =>
           /\ call_output.kind = "Node" <=> ClosingLine(call_input.lines) > 0
           /\ call_output.kind = "Node" =>
                  /\ call_output.node.type = "Condition"
                  /\ call_output.rest =
                         After(call_input.lines, call_input.eol,
                               ClosingLine(call_input.lines))
                  /\ Len(call_output.node.branches) =
                         1 + Cardinality(OuterLines(call_input.lines, "elif"))
                  /\ call_output.node.fallback.some <=>
                         OuterLines(call_input.lines, "else") # {}
    /\ (ParseCalled /\ KindOf(call_input.lines[1]) = "if"
            /\ ClosingLine(call_input.lines) = 0) =>
           call_output.chunks = <<>>

\* A conditional inside the first branch of a conditional with an `#elif`
\* and an `#else`: the first `#endif` closes the inner one.
C26_Witness ==
    /\ ConditionCalled
    /\ call_input.lines = <<LineIf, LineRaw, LineIf, LineRaw, LineEndif,
                            LineElif, LineRaw, LineElse, LineRaw, LineEndif>>
    /\ call_output.kind = "Node"
    /\ call_output.rest = <<>>
    /\ Len(call_output.node.branches) = 2
    /\ call_output.node.branches[1].body[2].type = "Condition"
    /\ call_output.node.branches[1].body[2].fallback = None
    /\ call_output.node.fallback = Some(<<Raw(LineRaw)>>)

(***************************************************************************)
(* C23: parse_condition records the branches of a conditional in source    *)
(* order, the `#if` first and then each `#elif`, with the `#else` body as  *)
(* the fallback.  The preprocessor evaluates the conditions in that order  *)
(* up to the first that is not zero and emits the body of that branch and  *)
(* nothing else; when every condition is zero it emits the `#else` body if *)
(* there is one and nothing otherwise.                                     *)
(***************************************************************************)
ConditionPreprocessed ==
    /\ call_input.fn = "preprocess"
    /\ call_input.family = "condition"
    /\ call_output # NoOutput

\* The value of the condition texts of the inputs.
IsZero(text) == text \in { <<"0">>, <<"1", "-", "1">> }

TrueBranches ==
    { i \in DOMAIN call_input.conditions : ~IsZero(call_input.conditions[i]) }

FirstTrue == CHOOSE i \in TrueBranches : \A j \in TrueBranches : i <= j

C23_FirstTrueBranch ==
    ConditionPreprocessed =>
        /\ Len(call_output.nodes) = 1
        /\ call_output.nodes[1].type = "Condition"
        /\ call_output.nodes[1].branches =
               [i \in DOMAIN call_input.conditions |->
                    ConditionBranch(call_input.conditions[i],
                                    <<Raw(BodyOf(i))>>)]
        /\ call_output.nodes[1].fallback =
               IF call_input.else THEN Some(<<Raw(ElseBody)>>) ELSE None
        /\ call_output.result.kind = "Ok"
        /\ IF TrueBranches # {}
           THEN /\ call_output.result.text = <<BodyOf(FirstTrue)>>
                /\ call_output.result.evaluated =
                       SubSeq(call_input.conditions, 1, FirstTrue)
           ELSE /\ call_output.result.text =
                       IF call_input.else THEN <<ElseBody>> ELSE <<>>
                /\ call_output.result.evaluated = call_input.conditions

\* `#if 0`, `#elif 1`, `#elif 1` and `#else`: the body of the first
\* `#elif` is emitted and the second `#elif` is not evaluated.
C23_Witness ==
    /\ ConditionPreprocessed
    /\ call_input.conditions = << <<"0">>, <<"1">>, <<"1">> >>
    /\ call_input.else
    /\ call_output.result.text = << <<"q">> >>
    /\ call_output.result.evaluated = << <<"0">>, <<"1">> >>

(***************************************************************************)
(* C22: entering a path that is on the include stack fails with            *)
(* IncludeCycle of that path.  When the inclusions of the files, all of    *)
(* them present, hold a cycle that can be reached from the root, the       *)
(* preprocessing ends with IncludeCycle of a path on such a cycle; when    *)
(* they hold none it succeeds, a file included twice in sequence being     *)
(* entered twice.                                                          *)
(***************************************************************************)
IncludePreprocessed ==
    /\ call_input.fn = "preprocess"
    /\ call_input.family = "include"
    /\ call_output # NoOutput

Target(line) == IF line = LineInclude THEN PathA ELSE PathB

\* The paths a file includes, and the paths reached from a set of paths by
\* at most n inclusions.
Included(path) ==
    IF path \in DOMAIN call_input.lines
    THEN { Target(call_input.lines[path][i]) :
               i \in { j \in DOMAIN call_input.lines[path] :
                           call_input.lines[path][j] # LineRaw } }
    ELSE {}

RECURSIVE Reached(_, _)
Reached(paths, n) ==
    IF n = 0 THEN paths
    ELSE Reached(paths \cup UNION { Included(p) : p \in paths }, n - 1)

Paths == {PathA, PathB}

OnCycle(path) == path \in Reached(Included(path), Cardinality(Paths))

FromRoot == Reached({call_input.path}, Cardinality(Paths))

CycleReachable == \E p \in FromRoot : OnCycle(p)

C22_IncludeCycle ==
    IncludePreprocessed =>
        /\ (call_output.result.kind = "Err"
                /\ call_output.result.error.type = "IncludeCycle") =>
               /\ OnCycle(call_output.result.error.path)
               /\ OnStack(call_output.result.entered,
                          call_output.result.error.path)
        /\ FromRoot \subseteq DOMAIN call_input.fs =>
               IF CycleReachable
               THEN /\ call_output.result.kind = "Err"
                    /\ call_output.result.error.type = "IncludeCycle"
               ELSE call_output.result.kind = "Ok"

\* "a" includes "b" twice in sequence and "b" includes nothing: "b" is
\* entered twice and its line is emitted twice.
C22_WitnessSequential ==
    /\ IncludePreprocessed
    /\ call_input.lines[PathA] = <<LineIncludeB, LineIncludeB>>
    /\ PathB \in DOMAIN call_input.lines
    /\ call_input.lines[PathB] = <<LineRaw>>
    /\ call_output.result.kind = "Ok"
    /\ call_output.result.entered = <<PathA, PathB, PathB>>
    /\ call_output.result.text = <<LineRaw, LineRaw>>

\* "a" includes "b" and "b" includes "a": IncludeCycle of "a".
C22_Witness ==
    /\ IncludePreprocessed
    /\ call_input.lines[PathA] = <<LineRaw, LineIncludeB>>
    /\ PathB \in DOMAIN call_input.lines
    /\ call_input.lines[PathB] = <<LineInclude>>
    /\ call_output.result.kind = "Err"
    /\ call_output.result.error = IncludeCycle(PathA)
    /\ call_output.result.entered = <<PathA, PathB>>

(***************************************************************************)
(* C21 (as stated): dump runs the stages preprocess, parse, layout,        *)
(* compile and execute in that order up to the first that fails; when a    *)
(* stage fails, `error` is set in the Output that is returned, no later    *)
(* stage runs, and the fields of the later stages are left as they were:   *)
(* `preprocessed` when the failure is before the layout has succeeded,     *)
(* `instructions`, `registers` and `memory` when it is before execution.   *)
(***************************************************************************)
DumpCalled == call_input.fn = "dump" /\ call_output # NoOutput

Stages == <<"preprocess", "parse", "layout", "compile", "execute">>

\* The first stage that fails on the input, 0 when none does.
FirstFailure ==
    IF call_input.preprocessed.kind = "Err" THEN 1
    ELSE IF call_input.parsed.kind = "Err" THEN 2
    ELSE IF layout_memory(call_input.parsed.program).kind # "Ok" THEN 3
    ELSE IF call_input.compiled.kind = "Err" THEN 4
    ELSE IF computer_steps(call_input.computer, DUMP_STEPS).status.kind = "Err"
    THEN 5
    ELSE 0

C21_Original ==
    DumpCalled =>
        /\ call_output.stages =
               SubSeq(Stages, 1, IF FirstFailure = 0 THEN Len(Stages)
                                 ELSE FirstFailure)
        /\ FirstFailure > 0 =>
               /\ call_output.kind = "Returned"
               /\ call_output.output.error.some
               /\ FirstFailure <= 3 => call_output.output.preprocessed = <<>>
               /\ FirstFailure < 5 =>
                      /\ ~call_output.output.instructions.some
                      /\ ~call_output.output.registers.some
                      /\ ~call_output.output.memory.some

====
